---------------------------- MODULE Spec2Model ----------------------------
(***************************************************************************)
(* State-machine model of egui-pysync: the server engine                   *)
(* (egui-pyserver/src/server.rs), the server value slots                   *)
(* (egui-pyserver/src/values.rs), the client engine                        *)
(* (egui-pyclient/src/client.rs) and the client value slots                *)
(* (egui-pyclient/src/values.rs).                                          *)
(*                                                                         *)
(* Atomicity.  Every action is one lock section or one access to a shared  *)
(* atomic / channel / socket.  A host set_py is two steps (the relaxed     *)
(* load of `connected`, then the write-lock section), Value::sync is two   *)
(* steps (the write-lock section, then the send after drop(w)).            *)
(*                                                                         *)
(* The specifications share the actions:                                   *)
(*   Spec      server engine + client engine + host and UI setters         *)
(*   SpecHs    server engine against arbitrary peers (first frame free)    *)
(*   SpecLive  SpecHs with the reader and writer threads scheduled fairly  *)
(*   SpecRx    client engine against an arbitrary peer (inbound frames     *)
(*             free)                                                       *)
(*   SpecSlots server engine with value, static, dict and graph slots      *)
(*   SpecStop  server engine with a host calling stop() and start()        *)
(*   SpecSrvRx server engine against a peer that sends arbitrary frames    *)
(*   SpecRxLive SpecRx with the client's writer and joins scheduled fairly *)
(*   SpecCodec frames of every kind through WriteMessage::parse,           *)
(*             write_message, read_message and ReadMessage::parse          *)
(*             (egui-pytransport/src/transport.rs), as bytes               *)
(*   SpecDict  dict messages through DictMessage::write_message and        *)
(*             read_message (egui-pytransport/src/dict.rs), as bytes       *)
(*   SpecGraph one series of a graph slot (egui-pyserver/src/graphs.rs)    *)
(*             and its mirror (src/graphs.rs)                              *)
(*   SpecBuild the client's and the server's slot registry builders        *)
(*             (egui-pysync-client/src/states_creator.rs)                  *)
(*   SpecReplace SpecLive with the server thread scheduled fairly too      *)
(*   SpecHead  read_message and ReadMessage::parse on every value of       *)
(*             header byte 0, in a build with and without overflow checks  *)
(*   SpecPack  Graph::to_graph_data (src/graphs.rs) on the series the      *)
(*             graph setters build                                         *)
(***************************************************************************)
EXTENDS Integers, Sequences, FiniteSets, TLC

\* ------------------------------------------------------------------ bounds
MaxConns      == 2   \* sockets ever opened towards the listener
MaxOps        == 3   \* host set_py + UI Value::set + host disconnect_client calls
MaxPeerFrames == 2   \* frames an arbitrary peer sends to the client reader

ConnIds == 1..MaxConns
Hosts   == {"h1"}
SrvVals == {1}       \* value the host sets (the slots start at 0)
CliVals == {3}       \* values the UI sets

\* ------------------------------------------------------- registry contents
\* One slot of every dispatch map of the client registry (ValuesList); the ids
\* are those a builder hands out, starting at 10.
ValueId   == 10
StaticId  == ValueId + 1
ImageId   == ValueId + 2
DictId    == ValueId + 3
ListId    == ValueId + 4
GraphId   == ValueId + 5
UnknownId == ValueId + 6   \* an id no add_* call has handed out

ValueIds   == {ValueId}
CliIds     == {ValueId, StaticId, ImageId, DictId, ListId, GraphId}

\* ------------------------------------------------------------------ frames
\* A frame is a record of one shape.  Handshake carries version in `val` and
\* token in `id`; Ack carries the slot id in `id`; Error carries its text in
\* `txt`.  txt = "bad-payload" marks a payload the slot's type cannot decode.
Frame(kind, cmd, id, flag, val, txt) ==
    [kind |-> kind, cmd |-> cmd, id |-> id, flag |-> flag, val |-> val, txt |-> txt]

ValueMsg(id, flag, v) == Frame("Value", "", id, flag, v, "")
AckMsg(id)            == Frame("Command", "Ack", id, FALSE, 0, "")
HandshakeMsg(ver, tok) == Frame("Command", "Handshake", tok, FALSE, ver, "")
ErrorMsg(txt)         == Frame("Command", "Error", 0, FALSE, 0, txt)
Terminate             == Frame("Terminate", "", 0, FALSE, 0, "")

Decodes(m) == m.txt # "bad-payload"

NoSnap == << >>

\* ------------------------------------------------------------ header bytes
HEAD_SIZE == 32
MESS_SIZE == 26
SIZE_START == HEAD_SIZE - 4

\* `let mut head = [0u8; HEAD_SIZE]`.
ZeroHead == [i \in 1..HEAD_SIZE |-> 0]

\* Option<Vec<u8>>.
None == [some |-> FALSE, bytes |-> << >>]
Some(b) == [some |-> TRUE, bytes |-> b]

NoMsg == [kind |-> "none"]

\* No series at the index of a graph slot.
NoGraph == [there |-> FALSE]

\* No to_graph_data call yet.
NoPack == [called |-> FALSE]

\* ValuesCreator::new, line 58: ids below 10 are reserved.
FirstId == ValueId

\* The dispatch maps of ValuesList.
MapNames == {"values", "static_values", "images", "dicts", "lists", "graphs"}

VARIABLES
    \* ---- server configuration (arguments of Server::new)
    version,        \* u64 protocol version
    handshake,      \* Option<Vec<u64>>: [some |-> BOOLEAN, list |-> set of tokens]
    sync_ids,       \* ValuesList.sync: ids of the slots the sync sweep visits
    \* ---- server control (Server::start / Server::stop)
    enabled,        \* Arc<AtomicBool>
    start_ev,       \* Event: TRUE while set
    ctl_pc,         \* position of the host thread inside start() / stop()
    ctl_ops,        \* start() / stop() calls made so far
    \* ---- server shared state
    connected,      \* Arc<AtomicBool>
    queue,          \* the server's outbound mpsc channel
    s_val,          \* Value.value.0 per value slot
    s_cnt,          \* Value.value.1 per value slot (pending-write counter)
    s_static,       \* ValueStatic.value of the static slot
    s_dict,         \* ValueDict.dict of the dict slot: its set of keys
    s_graph,        \* ValueGraphs.graphs of the graph slot: its set of series
    stale,          \* history: how many messages at the head of `queue` were
                    \* already queued when the last handshake was accepted
    drained,        \* history: how many messages the drain of the handshake
                    \* being served has discarded
    sig_n,          \* number of events handed to ChangedValues::set
    sig_last,       \* the last such event
    \* ---- server thread
    srv_pc,         \* position of the server thread in its loop
    srv_conn,       \* the stream accepted in this iteration
    srv_frame,      \* the parsed first frame of that stream
    holder,         \* ChannelHolder: "Rx" or "Transfer"
    sync_todo,      \* slots the sync sweep has not reached yet
    sync_snap,      \* message built by a sync() that has not sent it yet
    \* ---- server reader / writer of the current StatesTransfer
    rd_pc, wr_pc, rd_conn,
    \* ---- host threads calling set_py
    host_pc, host_arg, srv_sets, discs,
    \* ---- sockets
    sock,           \* per connection: "free", "backlog" (connected, not yet accepted),
                    \* "open", "srv_closed" (dropped or shut down by the server);
                    \* "backlog_eof" / "open_eof": the peer has closed its end
    c2s, s2c,       \* per connection: frames in flight in each direction
    \* ---- client
    cl_pc, cl_conn, ui_state, crd_pc, cwr_pc,
    cq,             \* the client's outbound mpsc channel
    c_val,          \* client mirrors per registered id
    c_version, c_token,
    cli_sets, peer_frames,
    c_first,        \* history: nothing was written to the stream yet in the
                    \* client session that was started last
    c_stale,        \* history: how many messages at the head of `cq` were
                    \* queued before the last connect succeeded
    \* ---- wire codec (one writer thread, one reader thread, one stream)
    cx_pc,          \* "idle", or "sent" while a frame is on the stream
    cx_n,           \* frames encoded so far
    cx_head,        \* the writer's header buffer, reused for every frame
    cx_msg,         \* the WriteMessage encoded last
    cx_data,        \* the payload WriteMessage::parse returned for it
    cx_wire,        \* bytes written to the stream and not read yet
    cx_got,         \* what the reader made of the frame read last
    \* ---- one series of a graph slot on the server and its mirror
    g_srv,          \* the Graph at the index in ValueGraphs.graphs, or NoGraph
    g_cli,          \* the Graph at the index in the client's graph slot
    g_out,          \* GraphMessages sent by the slot and not applied yet
    g_ret,          \* what the host's last call on the slot returned
    g_rx,           \* what applying the last inbound message returned
    g_ops,          \* host calls on the slot so far
    g_pack,         \* the last to_graph_data call: its argument and outcome
    \* ---- registry builders
    b_cnt,          \* ValuesCreator.counter of the client builder
    b_slots,        \* slots the client builder has created: [shape, id]
    b_maps,         \* ValuesList: the ids in each dispatch map
    sb_cnt,         \* counter of the server builder
    sb_slots        \* slots the server builder has created

srvCfg   == <<version, handshake, sync_ids>>
srvCtl   == <<enabled, start_ev, ctl_pc, ctl_ops>>
srvColl  == <<s_static, s_dict, s_graph>>
hist     == <<stale, drained>>
srvSlots == <<s_val, s_cnt>>
srvSig   == <<sig_n, sig_last>>
srvThr   == <<srv_pc, srv_conn, srv_frame, holder, sync_todo, sync_snap>>
srvXfer  == <<rd_pc, wr_pc, rd_conn>>
hostVars == <<host_pc, host_arg, srv_sets, discs>>
netVars  == <<sock, c2s, s2c>>
cliThr   == <<cl_pc, cl_conn, ui_state, crd_pc, cwr_pc>>
cliVars  == <<cq, c_val, c_version, c_token, cli_sets, peer_frames>>
chist    == <<c_first, c_stale>>
codec    == <<cx_pc, cx_n, cx_head, cx_msg, cx_data, cx_wire, cx_got>>
gvars    == <<g_srv, g_cli, g_out, g_ret, g_rx, g_ops, g_pack>>
bvars    == <<b_cnt, b_slots, b_maps, sb_cnt, sb_slots>>

vars == <<version, handshake, sync_ids, enabled, start_ev, ctl_pc, ctl_ops,
          s_static, s_dict, s_graph, stale, drained, connected, queue, s_val, s_cnt, sig_n, sig_last,
          srv_pc, srv_conn, srv_frame, holder, sync_todo, sync_snap,
          rd_pc, wr_pc, rd_conn, host_pc, host_arg, srv_sets, discs,
          sock, c2s, s2c, cl_pc, cl_conn, ui_state, crd_pc, cwr_pc,
          cq, c_val, c_version, c_token, cli_sets, peer_frames,
          c_first, c_stale, cx_pc, cx_n, cx_head, cx_msg, cx_data, cx_wire, cx_got,
          g_srv, g_cli, g_out, g_ret, g_rx, g_ops, g_pack,
          b_cnt, b_slots, b_maps, sb_cnt, sb_slots>>

NoArg == [id |-> 0, val |-> 0, sig |-> FALSE, conn |-> FALSE]
NoEvent == [id |-> 0, val |-> 0, txt |-> ""]

\* State after Server::new, ClientBuilder::build and start(): nothing connected,
\* both mirrors at the slots' initial value, all counters 0.
InitCommon ==
    /\ connected = FALSE
    /\ queue = << >>
    /\ s_val = [i \in ValueIds |-> 0]
    /\ s_cnt = [i \in ValueIds |-> 0]
    /\ s_static = 0
    /\ s_dict = {}
    /\ s_graph = {}
    /\ stale = 0
    /\ drained = 0
    /\ enabled = TRUE
    /\ start_ev = TRUE
    /\ ctl_pc = "idle"
    /\ ctl_ops = 0
    /\ sig_n = 0
    /\ sig_last = NoEvent
    /\ srv_pc = "listen"
    /\ srv_conn = 0
    /\ srv_frame = Terminate
    /\ holder = "Rx"
    /\ sync_todo = {}
    /\ sync_snap = NoSnap
    /\ rd_pc = "off" /\ wr_pc = "off" /\ rd_conn = 0
    /\ host_pc = [h \in Hosts |-> "idle"]
    /\ host_arg = [h \in Hosts |-> NoArg]
    /\ srv_sets = 0
    /\ discs = 0
    /\ sock = [c \in ConnIds |-> "free"]
    /\ c2s = [c \in ConnIds |-> << >>]
    /\ s2c = [c \in ConnIds |-> << >>]
    /\ cl_pc = "wait" /\ cl_conn = 0 /\ ui_state = "NotConnected"
    /\ crd_pc = "off" /\ cwr_pc = "off"
    /\ cq = << >>
    /\ c_val = [i \in CliIds |-> 0]
    /\ cli_sets = 0
    /\ peer_frames = 0
    /\ c_first = TRUE
    /\ c_stale = 0
    /\ cx_pc = "idle"
    /\ cx_n = 0
    /\ cx_head = ZeroHead
    /\ cx_msg = NoMsg
    /\ cx_data = None
    /\ cx_wire = << >>
    /\ cx_got = NoMsg
    /\ g_srv = NoGraph
    /\ g_cli = NoGraph
    /\ g_out = << >>
    /\ g_ret = "none"
    /\ g_rx = "none"
    /\ g_ops = 0
    /\ g_pack = NoPack
    /\ b_cnt = FirstId
    /\ b_slots = << >>
    /\ b_maps = [k \in MapNames |-> {}]
    /\ sb_cnt = FirstId
    /\ sb_slots = << >>

Init ==
    /\ InitCommon
    /\ sync_ids = ValueIds
    /\ version = 1
    /\ handshake = [some |-> TRUE, list |-> {1}]
    /\ c_version = 1
    /\ c_token = 1

\* ---------------------------------------------------------- change notifier
\* ChangedValues::set(id, value): one event handed to the host.
Emit(id, val, txt) ==
    /\ sig_n' = sig_n + 1
    /\ sig_last' = [id |-> id, val |-> val, txt |-> txt]

\* ------------------------------------------------------ server value slots
\* Value::set_py / ValueEnum::set_py, the write-lock section: the counter
\* grows only on the connected branch, where the message is sent too.
SetPyCounter(cnt, conn) == IF conn THEN cnt + 1 ELSE cnt

SetPyOut(id, upd, v, conn) == IF conn THEN <<ValueMsg(id, upd, v)>> ELSE << >>

\* process_value without the counter test: the inbound value always lands.
ProcessValueAlways(mirror, cnt, v) == v

\* Value::process_value: the inbound value replaces the mirror only at counter 0.
ProcessValue(mirror, cnt, v) == IF cnt = 0 THEN v ELSE mirror

\* acknowledge without the `w.1 > 0` test.
AcknowledgeUnguarded(cnt) == cnt - 1

\* acknowledge that forgets the decrement.
AcknowledgeDropped(cnt) == cnt

\* Value::acknowledge.
Acknowledge(cnt) == IF cnt > 0 THEN cnt - 1 ELSE cnt

\* Value::sync: w.1 = 1.
SyncCounter(cnt) == 1

\* Host thread, set_py line 69: the relaxed load of `connected`.
HostSetLoad(h, id, v, sig) ==
    /\ host_pc[h] = "idle"
    /\ srv_sets + cli_sets + discs < MaxOps
    /\ host_pc' = [host_pc EXCEPT ![h] = "set"]
    /\ host_arg' = [host_arg EXCEPT ![h] = [id |-> id, val |-> v, sig |-> sig,
                                            conn |-> connected]]
    /\ srv_sets' = srv_sets + 1
    /\ UNCHANGED <<bvars, gvars, codec, chist, srvCfg, srvCtl, srvColl, hist, connected, queue, srvSlots, srvSig, srvThr, srvXfer,
                   discs, netVars, cliThr, cliVars>>

\* Host thread, set_py lines 70-77 / 79-83: the write-lock section.
HostSetStore(h) ==
    /\ host_pc[h] = "set"
    /\ LET a == host_arg[h] IN
        /\ s_val' = [s_val EXCEPT ![a.id] = a.val]
        /\ s_cnt' = [s_cnt EXCEPT ![a.id] = SetPyCounter(@, a.conn)]
        /\ queue' = queue \o SetPyOut(a.id, FALSE, a.val, a.conn)
        /\ IF a.sig THEN Emit(a.id, a.val, "") ELSE UNCHANGED srvSig
    /\ host_pc' = [host_pc EXCEPT ![h] = "idle"]
    /\ host_arg' = [host_arg EXCEPT ![h] = NoArg]
    /\ UNCHANGED <<bvars, gvars, codec, chist, srvCfg, srvCtl, srvColl, hist, connected, srvThr, srvXfer, srv_sets, discs, netVars,
                   cliThr, cliVars>>

\* Server::disconnect_client line 350: the load of `connected`.
DisconnectLoad(h) ==
    /\ host_pc[h] = "idle"
    /\ srv_sets + cli_sets + discs < MaxOps
    /\ connected
    /\ host_pc' = [host_pc EXCEPT ![h] = "disc_store"]
    /\ discs' = discs + 1
    /\ UNCHANGED <<bvars, gvars, codec, chist, srvCfg, srvCtl, srvColl, hist, connected, queue, srvSlots, srvSig, srvThr, srvXfer,
                   host_arg, srv_sets, netVars, cliThr, cliVars>>

\* Line 351: connected.store(false).
DisconnectStore(h) ==
    /\ host_pc[h] = "disc_store"
    /\ connected' = FALSE
    /\ host_pc' = [host_pc EXCEPT ![h] = "disc_send"]
    /\ UNCHANGED <<bvars, gvars, codec, chist, srvCfg, srvCtl, srvColl, hist, queue, srvSlots, srvSig, srvThr, srvXfer,
                   host_arg, srv_sets, discs, netVars, cliThr, cliVars>>

\* Line 352: channel.send(Terminate).
DisconnectSend(h) ==
    /\ host_pc[h] = "disc_send"
    /\ queue' = Append(queue, Terminate)
    /\ host_pc' = [host_pc EXCEPT ![h] = "idle"]
    /\ UNCHANGED <<bvars, gvars, codec, chist, srvCfg, srvCtl, srvColl, hist, connected, srvSlots, srvSig, srvThr, srvXfer,
                   host_arg, srv_sets, discs, netVars, cliThr, cliVars>>

\* ------------------------------------------------------------ server thread
\* The first-frame checks without the version comparison.
HandshakeCheckNoVersion(got, m, ver, hs) ==
    IF ~got THEN "read-error"
    ELSE IF m.kind = "Garbage" THEN "parse-error"
    ELSE IF ~(m.kind = "Command" /\ m.cmd = "Handshake") THEN "not-handshake"
    ELSE IF hs.some /\ m.id \notin hs.list THEN "token"
    ELSE "accept"

\* Outcome of the checks Server::new makes on the first frame of a stream.
\*   "read-error"  read_message failed (the peer closed before a full frame)
\*   "parse-error" ReadMessage::parse failed
\*   "not-handshake", "version", "token"  the three refusals
\*   "accept"      the session is established
HandshakeCheck(got, m, ver, hs) ==
    IF ~got THEN "read-error"
    ELSE IF m.kind = "Garbage" THEN "parse-error"
    ELSE IF ~(m.kind = "Command" /\ m.cmd = "Handshake") THEN "not-handshake"
    ELSE IF m.val # ver THEN "version"
    ELSE IF hs.some /\ m.id \notin hs.list THEN "token"
    ELSE "accept"

\* The error texts with the token refusal left silent.
HandshakeErrorSilentToken(outcome) ==
    CASE outcome = "read-error"  -> "Error reading initial message"
      [] outcome = "parse-error" -> "Error parsing initial message"
      [] outcome = "version"     -> "Attempted to connect with different version"
      [] OTHER                   -> ""

\* The error text each outcome hands to signals.set(0, ..), "" for none.
HandshakeError(outcome) ==
    CASE outcome = "read-error"  -> "Error reading initial message"
      [] outcome = "parse-error" -> "Error parsing initial message"
      [] outcome = "version"     -> "Attempted to connect with different version"
      [] outcome = "token"       -> "Attempted to connect with wrong hash"
      [] OTHER                   -> ""

\* Whether the outcome stores connected = false (line 263).
HandshakeClearsConnected(outcome) == outcome = "read-error"

\* Where `continue` or the end of the loop body leaves the server thread:
\* start_event.wait() returns at once while the event is set (the thread
\* binds and blocks in accept), and blocks while it is cleared.
LoopTop == IF start_ev THEN "listen" ELSE "wait"

\* Lines 225-236: start_event.wait() returns once the event is set.
SrvWait ==
    /\ srv_pc = "wait"
    /\ start_ev
    /\ srv_pc' = "listen"
    /\ UNCHANGED <<bvars, gvars, codec, chist, srvCfg, srvCtl, srvColl, hist, connected, queue, srvSlots, srvSig,
                   srv_conn, srv_frame, holder, sync_todo, sync_snap, srvXfer,
                   hostVars, netVars, cliThr, cliVars>>

\* Lines 239-255: listener.accept() returned stream c; with enabled = false
\* the stream is shut down and the loop starts over.
SrvAccept(c) ==
    /\ srv_pc = "listen"
    /\ sock[c] \in {"backlog", "backlog_eof"}
    /\ srv_conn' = c
    /\ IF enabled
          THEN /\ srv_pc' = "hs_read"
               /\ sock' = sock
          ELSE /\ srv_pc' = LoopTop
               /\ sock' = [sock EXCEPT ![c] = "srv_closed"]
    /\ UNCHANGED <<bvars, gvars, codec, chist, srvCfg, srvCtl, srvColl, hist, connected, queue, srvSlots, srvSig,
                   srv_frame, holder, sync_todo, sync_snap, srvXfer,
                   hostVars, c2s, s2c, cliThr, cliVars>>

\* read_message / ReadMessage::parse ran on the accepted stream and the
\* first-frame checks were made (lines 257-290).  A refused stream is dropped
\* at `continue`.
SrvHandshake(c) ==
    /\ srv_pc = "hs_read"
    /\ c = srv_conn
    /\ c2s[c] # << >> \/ sock[c] = "backlog_eof"
    /\ LET got == c2s[c] # << >>
           m   == IF got THEN Head(c2s[c]) ELSE Terminate
           out == HandshakeCheck(got, m, version, handshake)
       IN
        /\ srv_frame' = m
        /\ stale' = IF out = "accept" THEN Len(queue) ELSE stale
        /\ drained' = drained
        /\ c2s' = [c2s EXCEPT ![c] = IF got THEN Tail(@) ELSE @]
        /\ IF HandshakeError(out) # ""
              THEN Emit(0, 0, HandshakeError(out))
              ELSE UNCHANGED srvSig
        /\ connected' = IF HandshakeClearsConnected(out) THEN FALSE ELSE connected
        /\ IF out = "accept"
              THEN /\ srv_pc' = "hs_prev"
                   /\ sock' = [sock EXCEPT ![c] = IF @ = "backlog" THEN "open"
                                                              ELSE "open_eof"]
              ELSE /\ srv_pc' = LoopTop
                   /\ sock' = [sock EXCEPT ![c] = "srv_closed"]
    /\ UNCHANGED <<bvars, gvars, codec, chist, srvCfg, srvCtl, srvColl, queue, srvSlots, srv_conn, holder,
                   sync_todo, sync_snap, srvXfer, hostVars, s2c, cliThr, cliVars>>

\* Lines 292-300: disconnect the previous client, if a transfer is held.
SrvPrev ==
    /\ srv_pc = "hs_prev"
    /\ IF holder = "Transfer"
          THEN /\ connected' = FALSE
               /\ queue' = Append(queue, Terminate)
               /\ srv_pc' = "hs_join"
          ELSE /\ srv_pc' = "hs_conn"
               /\ UNCHANGED <<connected, queue>>
    /\ UNCHANGED <<bvars, gvars, codec, chist, srvCfg, srvCtl, srvColl, hist, srvSlots, srvSig, srv_conn, srv_frame, holder, sync_todo,
                   sync_snap, srvXfer, hostVars, netVars, cliThr, cliVars>>

\* A join that does not wait for the thread.
JoinReturnsEarly(pc) == TRUE

\* JoinHandle::join returns once the thread has returned its value.
JoinReturns(pc) == pc = "done"

\* Line 297: st.join() returns once the reader thread has returned the receiver.
SrvJoin ==
    /\ srv_pc = "hs_join"
    /\ JoinReturns(rd_pc)
    /\ rd_pc' = "off" /\ wr_pc' = "off"
    /\ holder' = "Rx"
    /\ srv_pc' = "hs_conn"
    /\ UNCHANGED <<bvars, gvars, codec, chist, srvCfg, srvCtl, srvColl, hist, connected, queue, srvSlots, srvSig, srv_conn, srv_frame,
                   sync_todo, sync_snap, rd_conn, hostVars, netVars, cliThr, cliVars>>

\* Line 302.
SrvConnected ==
    /\ srv_pc = "hs_conn"
    /\ connected' = TRUE
    /\ srv_pc' = "hs_drain"
    /\ UNCHANGED <<bvars, gvars, codec, chist, srvCfg, srvCtl, srvColl, hist, queue, srvSlots, srvSig, srv_conn, srv_frame, holder,
                   sync_todo, sync_snap, srvXfer, hostVars, netVars, cliThr, cliVars>>

\* A drain that leaves the channel as it found it.
DrainQueueKeep(q) == q

\* Line 305: `for _v in rx.try_iter() {}` empties the channel.
DrainQueue(q) == << >>

SrvDrain ==
    /\ srv_pc = "hs_drain"
    /\ queue' = DrainQueue(queue)
    /\ stale' = IF Len(queue') < stale THEN Len(queue') ELSE stale
    /\ drained' = Len(queue) - Len(queue')
    /\ sync_todo' = sync_ids
    /\ srv_pc' = "hs_sync"
    /\ UNCHANGED <<bvars, gvars, codec, chist, srvCfg, srvCtl, srvColl, connected, srvSlots, srvSig, srv_conn, srv_frame, holder,
                   sync_snap, srvXfer, hostVars, netVars, cliThr, cliVars>>

\* The slot `for (_, v) in values.sync.iter()` (line 306) visits next: the
\* registry is iterated in one fixed order, here that of the ids.
NextSync(todo) == CHOOSE i \in todo : \A j \in todo : i <= j

\* Value::sync lines 128-131: counter and snapshot under the write lock.
SrvSyncLock(id) ==
    /\ srv_pc = "hs_sync"
    /\ sync_snap = NoSnap
    /\ id \in sync_todo
    /\ id = NextSync(sync_todo)
    /\ s_cnt' = [s_cnt EXCEPT ![id] = SyncCounter(@)]
    /\ sync_snap' = <<ValueMsg(id, FALSE, s_val[id])>>
    /\ sync_todo' = sync_todo \ {id}
    /\ UNCHANGED <<bvars, gvars, codec, chist, srvCfg, srvCtl, srvColl, hist, connected, queue, s_val, srvSig, srv_pc, srv_conn,
                   srv_frame, holder, srvXfer, hostVars, netVars, cliThr, cliVars>>

\* Value::sync lines 133-134: the send, after the lock was dropped (one
\* channel.send per step for a sync() that sends several messages).
SrvSyncSend ==
    /\ srv_pc = "hs_sync"
    /\ sync_snap # NoSnap
    /\ queue' = Append(queue, Head(sync_snap))
    /\ sync_snap' = Tail(sync_snap)
    /\ UNCHANGED <<bvars, gvars, codec, chist, srvCfg, srvCtl, srvColl, hist, connected, srvSlots, srvSig, srv_pc, srv_conn, srv_frame,
                   holder, sync_todo, srvXfer, hostVars, netVars, cliThr, cliVars>>

\* Lines 311-319: StatesTransfer::start spawns the writer and the reader.
SrvSpawn ==
    /\ srv_pc = "hs_sync"
    /\ sync_snap = NoSnap
    /\ sync_todo = {}
    /\ rd_pc' = "run" /\ wr_pc' = "run"
    /\ rd_conn' = srv_conn
    /\ holder' = "Transfer"
    /\ srv_pc' = LoopTop
    /\ drained' = 0
    /\ UNCHANGED <<bvars, gvars, codec, chist, srvCfg, srvCtl, srvColl, stale, connected, queue, srvSlots, srvSig, srv_conn, srv_frame,
                   sync_todo, sync_snap, hostVars, netVars, cliThr, cliVars>>

\* ------------------------------------------------- server reader and writer
\* What read_message can return on stream c: a frame, or an error once the
\* stream is shut down or the peer has left and nothing is buffered.  After a
\* local shutdown a buffered frame may or may not still be delivered.
\* A receiver that hands out the newest message first.
RecvNewest(q) == [msg |-> q[Len(q)], rest |-> SubSeq(q, 1, Len(q) - 1)]

\* Receiver::recv on a non-empty channel: the oldest message, and what stays.
Recv(q) == [msg |-> Head(q), rest |-> Tail(q)]

\* A read that keeps blocking on a stream that is shut down or was left.
ReadOutcomesBlocking(c) == IF c2s[c] # << >> THEN {"frame"} ELSE {}

\* A read that a local shutdown of the stream does not release.
ReadOutcomesNoShutdown(c) ==
    (IF c2s[c] # << >> THEN {"frame"} ELSE {})
    \cup (IF sock[c] = "open_eof" /\ c2s[c] = << >> THEN {"error"} ELSE {})

\* What read_message can return on stream c: a frame that has arrived, or an
\* error once the stream is shut down or the peer has left and nothing is
\* left to read; otherwise it blocks.
ReadOutcomes(c) ==
    (IF c2s[c] # << >> THEN {"frame"} ELSE {})
    \cup (IF sock[c] = "srv_closed" \/ (sock[c] = "open_eof" /\ c2s[c] = << >>)
             THEN {"error"} ELSE {})

\* A reader that drops an Error command of the peer without telling the host.
SrvCommandSilent(m) ==
    IF m.cmd = "Ack" /\ m.id \in ValueIds
    THEN /\ s_cnt' = [s_cnt EXCEPT ![m.id] = Acknowledge(@)]
         /\ UNCHANGED <<s_val, srvSig>>
    ELSE IF m.cmd = "Error"
    THEN UNCHANGED <<srvSlots, srvSig>>
    ELSE /\ Emit(0, 0, "Command should not be processed here")
         /\ UNCHANGED srvSlots

\* Reader lines 70-98: a command frame.
SrvCommand(m) ==
    IF m.cmd = "Ack"
    THEN IF m.id \in ValueIds
         THEN /\ s_cnt' = [s_cnt EXCEPT ![m.id] = Acknowledge(@)]
              /\ UNCHANGED <<s_val, srvSig>>
         ELSE /\ Emit(0, 0, "Value not found for Ack command")
              /\ UNCHANGED srvSlots
    ELSE IF m.cmd = "Error"
    THEN /\ Emit(0, 0, "Error message from UI client")
         /\ UNCHANGED srvSlots
    ELSE /\ Emit(0, 0, "Command should not be processed here")
         /\ UNCHANGED srvSlots

\* Reader lines 101-122: a Value or Signal frame goes to process_value, every
\* other kind is reported.
SrvDispatch(m) ==
    IF m.kind \in {"Value", "Signal"} /\ m.id \in ValueIds /\ Decodes(m)
    THEN /\ s_val' = [s_val EXCEPT ![m.id] = ProcessValue(@, s_cnt[m.id], m.val)]
         /\ s_cnt' = s_cnt
         /\ IF m.flag \/ m.kind = "Signal"
               THEN Emit(m.id, m.val, "")
               ELSE UNCHANGED srvSig
    ELSE /\ Emit(0, 0, "Error processing message")
         /\ UNCHANGED srvSlots

\* One iteration of the reader loop (lines 42-123).
SrvReaderStep(o) ==
    /\ rd_pc = "run"
    /\ o \in ReadOutcomes(rd_conn)
    /\ c2s' = [c2s EXCEPT ![rd_conn] = IF o = "frame" THEN Tail(@) ELSE @]
    /\ IF ~connected
       THEN \* lines 47-50
            /\ sock' = [sock EXCEPT ![rd_conn] = "srv_closed"]
            /\ rd_pc' = "term"
            /\ UNCHANGED <<connected, srvSlots, srvSig>>
       ELSE IF o = "error"
       THEN \* lines 52-57
            /\ Emit(0, 0, "Error reading message")
            /\ connected' = FALSE
            /\ rd_pc' = "term"
            /\ UNCHANGED <<sock, srvSlots>>
       ELSE LET m == Head(c2s[rd_conn]) IN
            /\ UNCHANGED <<connected, sock, rd_pc>>
            /\ IF m.kind = "Garbage"
               THEN Emit(0, 0, "Error parsing message") /\ UNCHANGED srvSlots
               ELSE IF m.kind = "Command" THEN SrvCommand(m) ELSE SrvDispatch(m)
    /\ UNCHANGED <<bvars, gvars, codec, chist, srvCfg, srvCtl, srvColl, hist, queue, srvThr, wr_pc, rd_conn, hostVars, s2c, cliThr,
                   cliVars>>

\* Line 126: the reader, out of its loop, sends Terminate to the writer.
SrvReaderTerm ==
    /\ rd_pc = "term"
    /\ queue' = Append(queue, Terminate)
    /\ rd_pc' = "join"
    /\ UNCHANGED <<bvars, gvars, codec, chist, srvCfg, srvCtl, srvColl, hist, connected, srvSlots, srvSig, srvThr, wr_pc, rd_conn,
                   hostVars, netVars, cliThr, cliVars>>

\* Line 129: writer.join() returns the receiver.
SrvReaderJoin ==
    /\ rd_pc = "join"
    /\ JoinReturns(wr_pc)
    /\ rd_pc' = "done"
    /\ UNCHANGED <<bvars, gvars, codec, chist, srvCfg, srvCtl, srvColl, hist, connected, queue, srvSlots, srvSig, srvThr, wr_pc, rd_conn,
                   hostVars, netVars, cliThr, cliVars>>

\* What write_all can return on stream c: it fails once the stream is shut
\* down; after the peer has left it may still succeed (the bytes are lost).
WriteOutcomes(c) ==
    CASE sock[c] \in {"open", "backlog"}         -> {"ok"}
      [] sock[c] \in {"open_eof", "backlog_eof"} -> {"lost", "error"}
      [] OTHER                                   -> {"error"}

\* A writer that stops at Terminate only and does not look at `connected`.
WriterStopsAtTerminate(m, conn) == m = Terminate

\* Writer lines 151-160: the two tests made on a dequeued message before it
\* is written.
WriterStops(m, conn) == m = Terminate \/ ~conn

\* One iteration of the writer loop (lines 147-174).
SrvWriterStep(o) ==
    /\ wr_pc = "run"
    /\ queue # << >>
    /\ queue' = Recv(queue).rest
    /\ stale' = IF stale > 0 THEN stale - 1 ELSE 0
    /\ drained' = drained
    /\ LET m == Recv(queue).msg IN
       IF WriterStops(m, connected)
       THEN /\ o = "ok"
            /\ sock' = [sock EXCEPT ![rd_conn] = "srv_closed"]
            /\ wr_pc' = "done"
            /\ UNCHANGED <<connected, s2c, srvSig>>
       ELSE /\ o \in WriteOutcomes(rd_conn)
            /\ IF o = "error"
               THEN /\ Emit(0, 0, "Error writing message")
                    /\ connected' = FALSE
                    /\ wr_pc' = "done"
                    /\ UNCHANGED <<sock, s2c>>
               ELSE /\ s2c' = [s2c EXCEPT ![rd_conn] =
                                  IF o = "ok" THEN Append(@, m) ELSE @]
                    /\ UNCHANGED <<connected, sock, wr_pc, srvSig>>
    /\ UNCHANGED <<bvars, gvars, codec, chist, srvCfg, srvCtl, srvColl, srvSlots, srvThr, rd_pc, rd_conn, hostVars, c2s, cliThr,
                   cliVars>>

\* ------------------------------------------------------------------- client
\* The dispatch map handle_message looks a frame's id up in; Signal has none.
CliMap(kind) ==
    CASE kind = "Value"  -> ValueIds
      [] kind = "Static" -> {StaticId}
      [] kind = "Image"  -> {ImageId}
      [] kind = "Dict"   -> {DictId}
      [] kind = "List"   -> {ListId}
      [] kind = "Graph"  -> {GraphId}
      [] OTHER           -> {}

\* update_value that forgets the acknowledgement.
ValueUpdateOutNone(id) == << >>

\* What Value::update_value and ValueEnum::update_value send after they have
\* written the mirror: the acknowledgement.
ValueUpdateOut(id) == <<AckMsg(id)>>

\* A ValueStatic::update_value that acknowledges like Value does.
StaticUpdateOutAck(id) == <<AckMsg(id)>>

\* ValueStatic::update_value sends nothing.
StaticUpdateOut(id) == << >>

\* ValueDict::update_dict: the mirror takes the inbound content, nothing is sent.
DictUpdateOut(id) == << >>

\* update_image / update_list / update_graph: the mirror takes the inbound
\* content, nothing is sent.
CollectionUpdateOut(id) == << >>

\* handle_message whose update functions leave the mirror alone.
HandleMessageKeep(m, mirrors) ==
    IF m.kind = "Command"
    THEN [ok |-> TRUE, val |-> mirrors, out |-> << >>]
    ELSE IF m.id \in CliMap(m.kind) /\ Decodes(m)
    THEN [ok |-> TRUE,
          val |-> mirrors,
          out |-> IF m.kind = "Value" THEN <<AckMsg(m.id)>> ELSE << >>]
    ELSE [ok |-> FALSE, val |-> mirrors, out |-> << >>]

\* handle_message: [ok, val, out] = result, the mirrors after it, the messages
\* it put on the client's channel.
HandleMessage(m, mirrors) ==
    IF m.kind = "Command"
    THEN [ok |-> TRUE, val |-> mirrors, out |-> << >>]
    ELSE IF m.id \in CliMap(m.kind) /\ Decodes(m)
    THEN [ok |-> TRUE,
          val |-> [mirrors EXCEPT ![m.id] = m.val],
          out |-> CASE m.kind = "Value"  -> ValueUpdateOut(m.id)
                    [] m.kind = "Static" -> StaticUpdateOut(m.id)
                    [] m.kind = "Dict"   -> DictUpdateOut(m.id)
                    [] OTHER             -> CollectionUpdateOut(m.id)]
    ELSE [ok |-> FALSE, val |-> mirrors, out |-> << >>]

\* Value::set / ValueEnum::set on the client: mirror and send in one lock
\* section, whether or not a connection exists.
ClientSet(id, v, signal) ==
    /\ srv_sets + cli_sets + discs < MaxOps
    /\ cli_sets' = cli_sets + 1
    /\ c_val' = [c_val EXCEPT ![id] = v]
    /\ cq' = Append(cq, ValueMsg(id, signal, v))
    /\ UNCHANGED <<bvars, gvars, codec, chist, srvCfg, srvCtl, srvColl, hist, connected, queue, srvSlots, srvSig, srvThr, srvXfer,
                   hostVars, netVars, cliThr, c_version, c_token, peer_frames>>

\* A connect that leaves the channel as it found it.
ClientDrainQueueKeep(q) == q

\* Line 117: `for _v in rx.try_iter() {}` empties the client's channel.
ClientDrainQueue(q) == << >>

\* A client thread that joins the send thread whether or not it has ended.
WriterJoinedAnyway(wr) == TRUE

\* Line 208: send_thread.join() returns when the send thread has ended.
WriterJoined(wr) == wr = "done"

\* start_gui_client lines 103-109: the connect signal came, the state was set
\* to NotConnected, TcpStream::connect failed; back to wait_connection.
ClientConnectFail ==
    /\ cl_pc = "wait"
    /\ ui_state' = "NotConnected"
    /\ UNCHANGED <<bvars, gvars, codec, chist, srvCfg, srvCtl, srvColl, hist, connected, queue, srvSlots, srvSig,
                   srvThr, srvXfer, hostVars, netVars, cl_pc, cl_conn, crd_pc, cwr_pc, cliVars>>

\* start_gui_client lines 103-199: the connect signal came, the state was set
\* to NotConnected, TcpStream::connect succeeded against the bound listener,
\* the queue was drained, both threads were spawned.
ClientConnect(c) ==
    /\ cl_pc = "wait"
    /\ srv_pc = "listen"
    /\ sock[c] = "free"
    /\ \A d \in ConnIds : d < c => sock[d] # "free"
    /\ \A d \in ConnIds : sock[d] \notin {"backlog", "backlog_eof"}
    /\ sock' = [sock EXCEPT ![c] = "backlog"]
    /\ cl_conn' = c
    /\ cq' = ClientDrainQueue(cq)
    /\ c_stale' = Len(cq')
    /\ c_first' = TRUE
    /\ crd_pc' = "run" /\ cwr_pc' = "hs"
    /\ ui_state' = "NotConnected"
    /\ cl_pc' = "spawned"
    /\ UNCHANGED <<bvars, gvars, codec, srvCfg, srvCtl, srvColl, hist, connected, queue, srvSlots, srvSig, srvThr, srvXfer,
                   hostVars, c2s, s2c, c_val, c_version, c_token, cli_sets,
                   peer_frames>>

\* Line 201: with both threads spawned the state is set to Connected.
ClientReport ==
    /\ cl_pc = "spawned"
    /\ ui_state' = "Connected"
    /\ cl_pc' = "run"
    /\ UNCHANGED <<bvars, gvars, codec, chist, srvCfg, srvCtl, srvColl, hist, connected, queue, srvSlots, srvSig,
                   srvThr, srvXfer, hostVars, netVars, cl_conn, crd_pc, cwr_pc, cliVars>>

\* The stream closes when both of its clones are dropped, that is when the
\* second of the two client threads ends.
PeerLeft(st) ==
    CASE st = "open"    -> "open_eof"
      [] st = "backlog" -> "backlog_eof"
      [] OTHER          -> st

\* Send thread lines 169-175: the handshake is the first write.
ClientWriterHandshake(o) ==
    /\ cwr_pc = "hs"
    /\ o \in WriteOutcomes(cl_conn)
    /\ c_first' = IF o = "ok" THEN FALSE ELSE c_first
    /\ c_stale' = c_stale
    /\ IF o = "ok"
       THEN /\ c2s' = [c2s EXCEPT ![cl_conn] = Append(@, HandshakeMsg(c_version, c_token))]
            /\ cwr_pc' = "run"
            /\ sock' = sock
       ELSE /\ cwr_pc' = "done"
            /\ c2s' = c2s
            /\ sock' = IF crd_pc = "done"
                          THEN [sock EXCEPT ![cl_conn] = PeerLeft(@)] ELSE sock
    /\ UNCHANGED <<bvars, gvars, codec, srvCfg, srvCtl, srvColl, hist, connected, queue, srvSlots, srvSig, srvThr, srvXfer,
                   hostVars, s2c, cl_pc, cl_conn, ui_state, crd_pc, cliVars>>

\* A send thread that does not stop at the Terminate token.
ClientWriterStopsOnError(m, o) == o # "ok"

\* Send thread lines 182-185 and 192-195: the two ways out of the loop.
ClientWriterStops(m, o) == m = Terminate \/ o # "ok"

\* Send thread lines 177-196: one iteration of the loop.
ClientWriterStep(o) ==
    /\ cwr_pc = "run"
    /\ cq # << >>
    /\ cq' = Recv(cq).rest
    /\ c_stale' = IF c_stale > 0 THEN c_stale - 1 ELSE 0
    /\ c_first' = c_first
    /\ LET m == Recv(cq).msg
           stop == ClientWriterStops(m, o)
       IN
        /\ IF m = Terminate THEN o = "ok" ELSE o \in WriteOutcomes(cl_conn)
        /\ c2s' = [c2s EXCEPT ![cl_conn] = IF stop THEN @ ELSE Append(@, m)]
        /\ cwr_pc' = IF stop THEN "done" ELSE "run"
        /\ sock' = IF stop /\ crd_pc = "done"
                      THEN [sock EXCEPT ![cl_conn] = PeerLeft(@)] ELSE sock
    /\ UNCHANGED <<bvars, gvars, codec, srvCfg, srvCtl, srvColl, hist, connected, queue, srvSlots, srvSig, srvThr, srvXfer,
                   hostVars, s2c, cl_pc, cl_conn, ui_state, crd_pc, c_val,
                   c_version, c_token, cli_sets, peer_frames>>

\* Read thread lines 128-157: one iteration of the loop.  A read error ends
\* the thread silently; a parse or dispatch error sends Error and ends it.
ClientReaderStep(o) ==
    /\ crd_pc = "run"
    /\ o \in (IF s2c[cl_conn] # << >> THEN {"frame"} ELSE {})
             \cup (IF sock[cl_conn] = "srv_closed" /\ s2c[cl_conn] = << >>
                      THEN {"error"} ELSE {})
    /\ s2c' = [s2c EXCEPT ![cl_conn] = IF o = "frame" THEN Tail(@) ELSE @]
    /\ LET m == Head(s2c[cl_conn])
           r == HandleMessage(m, c_val)
           good == o = "frame" /\ m.kind # "Garbage" /\ r.ok
       IN
        /\ c_val' = IF good THEN r.val ELSE c_val
        /\ cq' = IF good THEN cq \o r.out
                 ELSE IF o = "error" THEN cq
                 ELSE IF m.kind = "Garbage"
                      THEN Append(cq, ErrorMsg("Error parsing message"))
                      ELSE Append(cq, ErrorMsg("Error handling message"))
        /\ crd_pc' = IF good THEN "run" ELSE "done"
        /\ sock' = IF ~good /\ cwr_pc = "done"
                      THEN [sock EXCEPT ![cl_conn] = PeerLeft(@)] ELSE sock
    /\ UNCHANGED <<bvars, gvars, codec, chist, srvCfg, srvCtl, srvColl, hist, connected, queue, srvSlots, srvSig, srvThr, srvXfer,
                   hostVars, c2s, cl_pc, cl_conn, ui_state, cwr_pc,
                   c_version, c_token, cli_sets, peer_frames>>

\* Lines 204-207: the read thread was joined, Terminate goes to the writer.
ClientJoinReader ==
    /\ cl_pc = "run"
    /\ crd_pc = "done"
    /\ cq' = Append(cq, Terminate)
    /\ cl_pc' = "join"
    /\ UNCHANGED <<bvars, gvars, codec, chist, srvCfg, srvCtl, srvColl, hist, connected, queue, srvSlots, srvSig, srvThr, srvXfer,
                   hostVars, netVars, cl_conn, ui_state, crd_pc, cwr_pc, c_val,
                   c_version, c_token, cli_sets, peer_frames>>

\* Lines 208-210: the send thread was joined and gave the receiver back.
ClientJoinWriter ==
    /\ cl_pc = "join"
    /\ WriterJoined(cwr_pc)
    /\ ui_state' = "Disconnected"
    /\ crd_pc' = "off" /\ cwr_pc' = "off"
    /\ cl_pc' = "wait"
    /\ UNCHANGED <<bvars, gvars, codec, chist, srvCfg, srvCtl, srvColl, hist, connected, queue, srvSlots, srvSig, srvThr, srvXfer,
                   hostVars, netVars, cl_conn, cliVars>>

\* ------------------------------------------------------------ specification
SrvThread ==
    \/ \E c \in ConnIds : SrvAccept(c)
    \/ \E c \in ConnIds : SrvHandshake(c)
    \/ SrvPrev
    \/ SrvConnected
    \/ SrvDrain
    \/ \E id \in ValueIds : SrvSyncLock(id)
    \/ SrvSyncSend
    \/ SrvSpawn

Outcomes == {"frame", "ok", "lost", "error"}

Next ==
    \/ \E h \in Hosts, id \in ValueIds, v \in SrvVals, sig \in BOOLEAN :
          HostSetLoad(h, id, v, sig)
    \/ \E h \in Hosts : HostSetStore(h)
    \/ \E h \in Hosts : DisconnectLoad(h)
    \/ \E h \in Hosts : DisconnectStore(h)
    \/ \E h \in Hosts : DisconnectSend(h)
    \/ SrvThread
    \/ SrvJoin
    \/ \E o \in Outcomes : SrvReaderStep(o)
    \/ SrvReaderTerm
    \/ SrvReaderJoin
    \/ \E o \in Outcomes : SrvWriterStep(o)
    \/ \E id \in ValueIds, v \in CliVals, sig \in BOOLEAN : ClientSet(id, v, sig)
    \/ ClientConnectFail
    \/ \E c \in ConnIds : ClientConnect(c)
    \/ ClientReport
    \/ \E o \in Outcomes : ClientWriterHandshake(o)
    \/ \E o \in Outcomes : ClientWriterStep(o)
    \/ \E o \in Outcomes : ClientReaderStep(o)
    \/ ClientJoinReader
    \/ ClientJoinWriter

Spec == Init /\ [][Next]_vars

\* ------------------------------------------------------ arbitrary peers
\* First frames an arbitrary peer may open a stream with.
HsFrames ==
    {HandshakeMsg(v, t) : v \in {1, 2}, t \in {1, 2}}
    \cup {AckMsg(ValueId), ErrorMsg("peer"), ValueMsg(ValueId, TRUE, 1),
          Frame("Garbage", "", 0, FALSE, 0, "")}

\* A peer connects to the bound listener and sends `first` (nothing when
\* first = << >>); with eof it closes its end right away.
PeerConnect(c, first, eof) ==
    /\ srv_pc = "listen"
    /\ sock[c] = "free"
    /\ \A d \in ConnIds : d < c => sock[d] # "free"
    /\ \A d \in ConnIds : sock[d] \notin {"backlog", "backlog_eof"}
    /\ first # << >> \/ eof
    /\ sock' = [sock EXCEPT ![c] = IF eof THEN "backlog_eof" ELSE "backlog"]
    /\ c2s' = [c2s EXCEPT ![c] = first]
    /\ UNCHANGED <<bvars, gvars, codec, chist, srvCfg, srvCtl, srvColl, hist, connected, queue, srvSlots, srvSig, srvThr, srvXfer,
                   hostVars, s2c, cliThr, cliVars>>

\* Frames an arbitrary peer may send to the client reader.
RxFrames ==
    {ValueMsg(ValueId, f, 1) : f \in BOOLEAN}
    \cup {ValueMsg(UnknownId, FALSE, 1),
          Frame("Value", "", ValueId, FALSE, 1, "bad-payload"),
          Frame("Signal", "", ValueId, FALSE, 1, ""),
          Frame("Garbage", "", 0, FALSE, 0, ""),
          AckMsg(ValueId),
          Frame("Command", "Update", 0, FALSE, 0, "")}
    \cup {Frame(k, "", CHOOSE i \in CliMap(k) : TRUE, FALSE, 2, "") :
             k \in {"Static", "Image", "Dict", "List", "Graph"}}

\* The peer of the client's stream sends one frame.
PeerSend(m) ==
    /\ peer_frames < MaxPeerFrames
    /\ cl_pc \in {"spawned", "run"}
    /\ sock[cl_conn] = "backlog"
    /\ s2c' = [s2c EXCEPT ![cl_conn] = Append(@, m)]
    /\ peer_frames' = peer_frames + 1
    /\ UNCHANGED <<bvars, gvars, codec, chist, srvCfg, srvCtl, srvColl, hist, connected, queue, srvSlots, srvSig, srvThr, srvXfer,
                   hostVars, sock, c2s, cliThr, cq, c_val, c_version, c_token,
                   cli_sets>>

\* The peer of the client's stream closes it.
PeerClose ==
    /\ cl_pc \in {"spawned", "run"}
    /\ sock[cl_conn] = "backlog"
    /\ sock' = [sock EXCEPT ![cl_conn] = "srv_closed"]
    /\ UNCHANGED <<bvars, gvars, codec, chist, srvCfg, srvCtl, srvColl, hist, connected, queue, srvSlots, srvSig, srvThr, srvXfer,
                   hostVars, c2s, s2c, cliThr, cliVars>>

InitHs ==
    /\ InitCommon
    /\ sync_ids = ValueIds
    /\ version = 1
    /\ handshake \in {[some |-> FALSE, list |-> {}], [some |-> TRUE, list |-> {1}]}
    /\ c_version = 1
    /\ c_token = 1

NextHs ==
    \/ \E c \in ConnIds, m \in HsFrames, eof \in BOOLEAN : PeerConnect(c, <<m>>, eof)
    \/ \E c \in ConnIds : PeerConnect(c, << >>, TRUE)
    \/ SrvThread
    \/ SrvJoin
    \/ \E o \in Outcomes : SrvReaderStep(o)
    \/ SrvReaderTerm
    \/ SrvReaderJoin
    \/ \E o \in Outcomes : SrvWriterStep(o)

SpecHs == InitHs /\ [][NextHs]_vars

\* The same with the reader and the writer thread of a session scheduled: a
\* thread whose next step does not block takes it.
SpecLive ==
    /\ InitHs /\ [][NextHs]_vars
    /\ WF_vars(\E o \in Outcomes : SrvReaderStep(o))
    /\ WF_vars(SrvReaderTerm)
    /\ WF_vars(SrvReaderJoin)
    /\ WF_vars(\E o \in Outcomes : SrvWriterStep(o))


\* The same with the server thread scheduled too: an accept, a first-frame
\* read or a join that can return does return.
SpecReplace ==
    /\ SpecLive
    /\ WF_vars(SrvThread)
    /\ WF_vars(SrvJoin)

NextRx ==
    \/ ClientConnectFail
    \/ \E c \in ConnIds : ClientConnect(c)
    \/ ClientReport
    \/ \E o \in Outcomes : ClientWriterHandshake(o)
    \/ \E o \in Outcomes : ClientWriterStep(o)
    \/ \E o \in Outcomes : ClientReaderStep(o)
    \/ ClientJoinReader
    \/ ClientJoinWriter
    \/ \E m \in RxFrames : PeerSend(m)
    \/ PeerClose

SpecRx == Init /\ [][NextRx]_vars

\* The same with the client thread and its send thread scheduled: a thread
\* whose next step does not block takes it.
SpecRxLive ==
    /\ Init /\ [][NextRx]_vars
    /\ WF_vars(\E o \in Outcomes : ClientWriterHandshake(o))
    /\ WF_vars(\E o \in Outcomes : ClientWriterStep(o))
    /\ WF_vars(ClientReport)
    /\ WF_vars(ClientJoinReader)
    /\ WF_vars(ClientJoinWriter)

\* ------------------------------------------- static, dict and graph slots
\* The server registry of the slot specification: a value, a static, a dict
\* and a graph slot, all of them swept at reconnect (ValuesList.sync).
SlotSyncIds == {ValueId, StaticId, DictId, GraphId}
MaxSlotOps  == 2   \* host setter calls of the slot specification
SlotHosts   == {"h1"}
SlotVals    == {1}
DictKeys    == {1, 2}
GraphIdx    == {1, 2}

StaticMsg(id, upd, v)   == Frame("Static", "", id, upd, v, "")
\* DictMessage::All / Set / Remove and GraphMessage::Set / AddPoints / Remove /
\* Reset; `val` carries the payload.
DictMsg(cmd, upd, v)    == Frame("Dict", cmd, DictId, upd, v, "")
GraphMsg(cmd, upd, idx) == Frame("Graph", cmd, GraphId, upd, idx, "")

\* Serialised HashMap<K, V> of DictMessage::All: one bit per key present.
DictCode(keys) == (IF 1 \in keys THEN 1 ELSE 0) + (IF 2 \in keys THEN 2 ELSE 0)

\* What a setter that found `connected` = conn hands to the channel.
SendIf(conn, m) == IF conn THEN <<m>> ELSE << >>

\* ValueGraphs::sync holds the read lock of the graph map from the Reset to
\* the last Set; a writer of the map waits for it.
GraphSyncHolds == sync_snap # NoSnap /\ Head(sync_snap).kind = "Graph"

\* Orders in which `for (idx, graph) in w.iter()` may visit the series.
SeriesOrders(S) ==
    {o \in [1..Cardinality(S) -> S] : \A i, j \in 1..Cardinality(S) : o[i] = o[j] => i = j}

\* A graph sync that sends the series without the Reset.
GraphSyncOutNoReset(order) == [i \in 1..Len(order) |-> GraphMsg("Set", FALSE, order[i])]

\* ValueGraphs::sync: Reset, then one Set per series.
GraphSyncOut(order) ==
    <<GraphMsg("Reset", FALSE, 0)>> \o [i \in 1..Len(order) |-> GraphMsg("Set", FALSE, order[i])]

\* ValueStatic::set_py line 172: the relaxed load of `connected`.
HostStaticLoad(h, v) ==
    /\ host_pc[h] = "idle"
    /\ srv_sets < MaxSlotOps
    /\ host_pc' = [host_pc EXCEPT ![h] = "set_static"]
    /\ host_arg' = [host_arg EXCEPT ![h] = [id |-> StaticId, val |-> v, sig |-> FALSE,
                                            conn |-> connected]]
    /\ srv_sets' = srv_sets + 1
    /\ UNCHANGED <<bvars, gvars, codec, chist, srvCfg, srvCtl, srvColl, hist, connected, queue, srvSlots, srvSig, srvThr, srvXfer,
                   discs, netVars, cliThr, cliVars>>

\* ValueStatic::set_py lines 173-178: the write-lock section; no counter.
HostStaticStore(h) ==
    /\ host_pc[h] = "set_static"
    /\ LET a == host_arg[h] IN
        /\ s_static' = a.val
        /\ queue' = queue \o SendIf(a.conn, StaticMsg(StaticId, FALSE, a.val))
    /\ host_pc' = [host_pc EXCEPT ![h] = "idle"]
    /\ host_arg' = [host_arg EXCEPT ![h] = NoArg]
    /\ UNCHANGED <<bvars, gvars, codec, chist, srvCfg, srvCtl, s_dict, s_graph, hist, connected, srvSlots, srvSig, srvThr, srvXfer,
                   srv_sets, discs, netVars, cliThr, cliVars>>

\* One call of a dict or graph setter: the write lock is held from before the
\* load of `connected` to after the mutation, the send lies in between.
HostCollection(h, msg, dict, graph) ==
    /\ host_pc[h] = "idle"
    /\ srv_sets < MaxSlotOps
    /\ srv_sets' = srv_sets + 1
    /\ queue' = queue \o SendIf(connected, msg)
    /\ s_dict' = dict
    /\ s_graph' = graph
    /\ UNCHANGED <<bvars, gvars, codec, chist, srvCfg, srvCtl, s_static, hist, connected, srvSlots, srvSig, srvThr, srvXfer,
                   host_pc, host_arg, discs, netVars, cliThr, cliVars>>

\* ValueDict::set_py.
HostDictSet(h, keys) ==
    HostCollection(h, DictMsg("All", FALSE, DictCode(keys)), keys, s_graph)

\* ValueDict::set_item_py.
HostDictSetItem(h, k) ==
    HostCollection(h, DictMsg("Set", FALSE, k), s_dict \cup {k}, s_graph)

\* ValueDict::del_item_py.
HostDictDelItem(h, k) ==
    HostCollection(h, DictMsg("Remove", FALSE, k), s_dict \ {k}, s_graph)

\* ValueGraphs::set_py.
HostGraphSet(h, i) ==
    /\ ~GraphSyncHolds
    /\ HostCollection(h, GraphMsg("Set", FALSE, i), s_dict, s_graph \cup {i})

\* ValueGraphs::add_points_py on an existing series (the points themselves are
\* not recorded; on a missing series the call returns an error at line 109).
HostGraphAdd(h, i) ==
    /\ ~GraphSyncHolds
    /\ i \in s_graph
    /\ HostCollection(h, GraphMsg("AddPoints", FALSE, i), s_dict, s_graph)

\* ValueGraphs::remove_py.
HostGraphRemove(h, i) ==
    /\ ~GraphSyncHolds
    /\ HostCollection(h, GraphMsg("Remove", FALSE, i), s_dict, s_graph \ {i})

\* ValueGraphs::clear_py.
HostGraphClear(h) ==
    /\ ~GraphSyncHolds
    /\ HostCollection(h, GraphMsg("Reset", FALSE, 0), s_dict, {})

\* One sync() of the sweep on the static, dict or graph slot: the message or
\* messages it builds under the slot's lock.
SrvSyncSlot(id, out) ==
    /\ srv_pc = "hs_sync"
    /\ sync_snap = NoSnap
    /\ id \in sync_todo
    /\ id = NextSync(sync_todo)
    /\ sync_snap' = out
    /\ sync_todo' = sync_todo \ {id}
    /\ UNCHANGED <<bvars, gvars, codec, chist, srvCfg, srvCtl, srvColl, hist, connected, queue, srvSlots, srvSig, srv_pc, srv_conn,
                   srv_frame, holder, srvXfer, hostVars, netVars, cliThr, cliVars>>

\* ValueStatic::sync.
SrvSyncStatic == SrvSyncSlot(StaticId, <<StaticMsg(StaticId, FALSE, s_static)>>)

\* ValueDict::sync.
SrvSyncDict == SrvSyncSlot(DictId, <<DictMsg("All", FALSE, DictCode(s_dict))>>)

\* ValueGraphs::sync.
SrvSyncGraph == \E order \in SeriesOrders(s_graph) : SrvSyncSlot(GraphId, GraphSyncOut(order))

\* State after Server::new with the four slots registered, and start().
InitSlots ==
    /\ connected = FALSE
    /\ queue = << >>
    /\ s_val = [i \in ValueIds |-> 0]
    /\ s_cnt = [i \in ValueIds |-> 0]
    /\ s_static = 0
    /\ s_dict = {}
    /\ s_graph = {}
    /\ stale = 0
    /\ drained = 0
    /\ enabled = TRUE
    /\ start_ev = TRUE
    /\ ctl_pc = "idle"
    /\ ctl_ops = 0
    /\ sig_n = 0
    /\ sig_last = NoEvent
    /\ srv_pc = "listen"
    /\ srv_conn = 0
    /\ srv_frame = Terminate
    /\ holder = "Rx"
    /\ sync_todo = {}
    /\ sync_snap = NoSnap
    /\ rd_pc = "off" /\ wr_pc = "off" /\ rd_conn = 0
    /\ host_pc = [h \in SlotHosts |-> "idle"]
    /\ host_arg = [h \in SlotHosts |-> NoArg]
    /\ srv_sets = 0
    /\ discs = 0
    /\ sock = [c \in ConnIds |-> "free"]
    /\ c2s = [c \in ConnIds |-> << >>]
    /\ s2c = [c \in ConnIds |-> << >>]
    /\ cl_pc = "wait" /\ cl_conn = 0 /\ ui_state = "NotConnected"
    /\ crd_pc = "off" /\ cwr_pc = "off"
    /\ cq = << >>
    /\ c_val = [i \in CliIds |-> 0]
    /\ cli_sets = 0
    /\ peer_frames = 0
    /\ c_first = TRUE
    /\ c_stale = 0
    /\ cx_pc = "idle"
    /\ cx_n = 0
    /\ cx_head = ZeroHead
    /\ cx_msg = NoMsg
    /\ cx_data = None
    /\ cx_wire = << >>
    /\ cx_got = NoMsg
    /\ g_srv = NoGraph
    /\ g_cli = NoGraph
    /\ g_out = << >>
    /\ g_ret = "none"
    /\ g_rx = "none"
    /\ g_ops = 0
    /\ g_pack = NoPack
    /\ b_cnt = FirstId
    /\ b_slots = << >>
    /\ b_maps = [k \in MapNames |-> {}]
    /\ sb_cnt = FirstId
    /\ sb_slots = << >>
    /\ sync_ids = SlotSyncIds
    /\ version = 1
    /\ handshake = [some |-> TRUE, list |-> {1}]
    /\ c_version = 1
    /\ c_token = 1

\* The server engine with all slot kinds, host threads calling their setters,
\* and peers that send a valid handshake and then only listen; a session ends
\* when the next peer is accepted.
NextSlots ==
    \/ \E h \in SlotHosts, id \in ValueIds, v \in SlotVals :
          srv_sets < MaxSlotOps /\ HostSetLoad(h, id, v, FALSE)
    \/ \E h \in SlotHosts : HostSetStore(h)
    \/ \E h \in SlotHosts, v \in SlotVals : HostStaticLoad(h, v)
    \/ \E h \in SlotHosts : HostStaticStore(h)
    \/ \E h \in SlotHosts, keys \in SUBSET DictKeys : HostDictSet(h, keys)
    \/ \E h \in SlotHosts, k \in DictKeys : HostDictSetItem(h, k)
    \/ \E h \in SlotHosts, k \in DictKeys : HostDictDelItem(h, k)
    \/ \E h \in SlotHosts, i \in GraphIdx : HostGraphSet(h, i)
    \/ \E h \in SlotHosts, i \in GraphIdx : HostGraphAdd(h, i)
    \/ \E h \in SlotHosts, i \in GraphIdx : HostGraphRemove(h, i)
    \/ \E h \in SlotHosts : HostGraphClear(h)
    \/ \E c \in ConnIds : PeerConnect(c, <<HandshakeMsg(1, 1)>>, FALSE)
    \/ \E c \in ConnIds : SrvAccept(c)
    \/ \E c \in ConnIds : SrvHandshake(c)
    \/ SrvPrev
    \/ SrvJoin
    \/ SrvConnected
    \/ SrvDrain
    \/ \E id \in ValueIds : SrvSyncLock(id)
    \/ SrvSyncStatic
    \/ SrvSyncDict
    \/ SrvSyncGraph
    \/ SrvSyncSend
    \/ SrvSpawn
    \/ \E o \in Outcomes : SrvReaderStep(o)
    \/ SrvReaderTerm
    \/ SrvReaderJoin
    \/ \E o \in Outcomes : SrvWriterStep(o)

SpecSlots == InitSlots /\ [][NextSlots]_vars

\* --------------------------------------------------- Server::start / stop
MaxCtl == 2   \* start() and stop() calls that get past their `enabled` test

\* stop() lines 337-341: enabled was true; start_event.clear().
StopClear ==
    /\ ctl_pc = "idle"
    /\ ctl_ops < MaxCtl
    /\ enabled
    /\ start_ev' = FALSE
    /\ ctl_pc' = "stop_store"
    /\ ctl_ops' = ctl_ops + 1
    /\ UNCHANGED <<bvars, gvars, codec, chist, srvCfg, enabled, srvColl, hist, connected, queue, srvSlots, srvSig, srvThr,
                   srvXfer, hostVars, netVars, cliThr, cliVars>>

\* stop() line 342: enabled.store(false).
StopStore ==
    /\ ctl_pc = "stop_store"
    /\ enabled' = FALSE
    /\ ctl_pc' = "stop_load"
    /\ UNCHANGED <<bvars, gvars, codec, chist, srvCfg, start_ev, ctl_ops, srvColl, hist, connected, queue, srvSlots, srvSig,
                   srvThr, srvXfer, hostVars, netVars, cliThr, cliVars>>

\* stop() line 343, disconnect_client line 350: the load of `connected`.
StopDiscLoad ==
    /\ ctl_pc = "stop_load"
    /\ ctl_pc' = IF connected THEN "stop_disc" ELSE "stop_conn"
    /\ UNCHANGED <<bvars, gvars, codec, chist, srvCfg, enabled, start_ev, ctl_ops, srvColl, hist, connected, queue, srvSlots,
                   srvSig, srvThr, srvXfer, hostVars, netVars, cliThr, cliVars>>

\* disconnect_client line 351: connected.store(false).
StopDiscStore ==
    /\ ctl_pc = "stop_disc"
    /\ connected' = FALSE
    /\ ctl_pc' = "stop_term"
    /\ UNCHANGED <<bvars, gvars, codec, chist, srvCfg, enabled, start_ev, ctl_ops, srvColl, hist, queue, srvSlots, srvSig,
                   srvThr, srvXfer, hostVars, netVars, cliThr, cliVars>>

\* disconnect_client line 352: channel.send(Terminate).
StopDiscSend ==
    /\ ctl_pc = "stop_term"
    /\ queue' = Append(queue, Terminate)
    /\ ctl_pc' = "stop_conn"
    /\ UNCHANGED <<bvars, gvars, codec, chist, srvCfg, enabled, start_ev, ctl_ops, srvColl, hist, connected, srvSlots, srvSig,
                   srvThr, srvXfer, hostVars, netVars, cliThr, cliVars>>

\* stop() line 346: TcpStream::connect(addr), the stream dropped at once.  It
\* reaches accept() when the server thread is blocked there with nothing else
\* pending; a connection made while the thread is elsewhere in its loop is
\* lost with the listener at the end of the iteration, and with no listener
\* bound the connect fails.
StopConnect(c) ==
    /\ ctl_pc = "stop_conn"
    /\ ctl_pc' = "idle"
    /\ IF srv_pc = "listen" /\ \A d \in ConnIds : sock[d] \notin {"backlog", "backlog_eof"}
          THEN /\ sock[c] = "free"
               /\ \A d \in ConnIds : d < c => sock[d] # "free"
               /\ sock' = [sock EXCEPT ![c] = "backlog_eof"]
          ELSE /\ c = 1
               /\ sock' = sock
    /\ UNCHANGED <<bvars, gvars, codec, chist, srvCfg, enabled, start_ev, ctl_ops, srvColl, hist, connected, queue, srvSlots,
                   srvSig, srvThr, srvXfer, hostVars, c2s, s2c, cliThr, cliVars>>

\* start() lines 328-332: enabled was false; enabled.store(true).
StartStore ==
    /\ ctl_pc = "idle"
    /\ ctl_ops < MaxCtl
    /\ ~enabled
    /\ enabled' = TRUE
    /\ ctl_pc' = "start_set"
    /\ ctl_ops' = ctl_ops + 1
    /\ UNCHANGED <<bvars, gvars, codec, chist, srvCfg, start_ev, srvColl, hist, connected, queue, srvSlots, srvSig, srvThr,
                   srvXfer, hostVars, netVars, cliThr, cliVars>>

\* start() line 333: start_event.set().
StartSet ==
    /\ ctl_pc = "start_set"
    /\ start_ev' = TRUE
    /\ ctl_pc' = "idle"
    /\ UNCHANGED <<bvars, gvars, codec, chist, srvCfg, enabled, ctl_ops, srvColl, hist, connected, queue, srvSlots, srvSig,
                   srvThr, srvXfer, hostVars, netVars, cliThr, cliVars>>

\* The running server engine with a host that calls stop() and start(), and
\* peers that send a valid handshake and then only listen, or leave.
NextStop ==
    \/ StopClear
    \/ StopStore
    \/ StopDiscLoad
    \/ StopDiscStore
    \/ StopDiscSend
    \/ \E c \in ConnIds : StopConnect(c)
    \/ StartStore
    \/ StartSet
    \/ \E c \in ConnIds, eof \in BOOLEAN : PeerConnect(c, <<HandshakeMsg(1, 1)>>, eof)
    \/ SrvWait
    \/ SrvThread
    \/ SrvJoin
    \/ \E o \in Outcomes : SrvReaderStep(o)
    \/ SrvReaderTerm
    \/ SrvReaderJoin
    \/ \E o \in Outcomes : SrvWriterStep(o)

SpecStop == Init /\ [][NextStop]_vars

\* ------------------------------------------- arbitrary frames to the server
MaxRxSets == 1   \* host set_py calls next to the peer's frames

\* Frames a peer may send after its handshake: the well-formed ones, and one
\* of every kind the server reader has to refuse.
SrvRxFrames ==
    {ValueMsg(ValueId, FALSE, 3), AckMsg(ValueId), AckMsg(UnknownId),
     ErrorMsg("peer"),
     Frame("Command", "Update", 0, FALSE, 0, ""),
     Frame("Garbage", "", 0, FALSE, 0, ""),
     ValueMsg(UnknownId, FALSE, 3),
     Frame("Signal", "", UnknownId, FALSE, 3, ""),
     Frame("Static", "", ValueId, FALSE, 3, "")}

\* The peer of stream c, whose handshake was accepted, sends one more frame.
PeerSendSrv(c, m) ==
    /\ peer_frames < MaxPeerFrames
    /\ sock[c] = "open"
    /\ c2s' = [c2s EXCEPT ![c] = Append(@, m)]
    /\ peer_frames' = peer_frames + 1
    /\ UNCHANGED <<bvars, gvars, codec, chist, srvCfg, srvCtl, srvColl, hist, connected, queue, srvSlots, srvSig, srvThr, srvXfer,
                   hostVars, sock, s2c, cliThr, cq, c_val, c_version, c_token, cli_sets>>

\* The server engine against peers that send a valid handshake and then any
\* frames, with a host that sets the value slot.
NextSrvRx ==
    \/ \E h \in Hosts, v \in SrvVals :
          srv_sets < MaxRxSets /\ HostSetLoad(h, ValueId, v, FALSE)
    \/ \E h \in Hosts : HostSetStore(h)
    \/ \E c \in ConnIds, eof \in BOOLEAN : PeerConnect(c, <<HandshakeMsg(1, 1)>>, eof)
    \/ \E c \in ConnIds, m \in SrvRxFrames : PeerSendSrv(c, m)
    \/ SrvThread
    \/ SrvJoin
    \/ \E o \in Outcomes : SrvReaderStep(o)
    \/ SrvReaderTerm
    \/ SrvReaderJoin
    \/ \E o \in Outcomes : SrvWriterStep(o)

SpecSrvRx == Init /\ [][NextSrvRx]_vars

\* --------------------------------------------------------------- wire codec
\* Message types (transport.rs lines 17-25).
TYPE_VALUE     == 16
TYPE_STATIC    == 32
TYPE_SIGNAL    == 12
TYPE_COMMAND   == 64
TYPE_IMAGE     == 4
TYPE_HISTOGRAM == 24
TYPE_DICT      == 48
TYPE_LIST      == 96
TYPE_GRAPH     == 8

CodecKinds == {"Value", "Static", "Signal", "Image", "Histogram", "Dict", "List", "Graph"}

TypeOf(kind) ==
    CASE kind = "Value"     -> TYPE_VALUE
      [] kind = "Static"    -> TYPE_STATIC
      [] kind = "Signal"    -> TYPE_SIGNAL
      [] kind = "Command"   -> TYPE_COMMAND
      [] kind = "Image"     -> TYPE_IMAGE
      [] kind = "Histogram" -> TYPE_HISTOGRAM
      [] kind = "Dict"      -> TYPE_DICT
      [] kind = "List"      -> TYPE_LIST
      [] kind = "Graph"     -> TYPE_GRAPH

\* to_le_bytes of an unsigned integer of w bytes, and from_le_bytes.
RECURSIVE LeBytes(_, _)
LeBytes(n, w) == IF w = 0 THEN << >> ELSE <<n % 256>> \o LeBytes(n \div 256, w - 1)

RECURSIVE LeValue(_)
LeValue(b) == IF b = << >> THEN 0 ELSE Head(b) + 256 * LeValue(Tail(b))

AsI8(b) == IF b > 127 THEN b - 256 ELSE b   \* `as i8` of a byte
AsU8(n) == (n + 256) % 256                  \* `as u8` of an i8

\* &h[from..to] and h[off..off + len(b)].copy_from_slice(b), offsets from 0.
Slice(h, from, to) == SubSeq(h, from + 1, to)
Put(h, off, b) ==
    [i \in 1..Len(h) |-> IF off < i /\ i <= off + Len(b) THEN b[i - off] ELSE h[i]]

\* A kind-specific encoder other than the dict one: it writes `sub` at the
\* start of the slice it is given and returns `data`.
RawWrite(body, slice) == [sub |-> Put(slice, 0, body.sub), data |-> body.data]

\* CommandMessage::write_message on &mut head[1..]: the sub-tag and the
\* in-header parameters, and for a command with a payload the length of the
\* payload in the size field of the header.
CommandWrite(body, slice) ==
    LET s == Put(slice, 0, body.sub) IN
    [sub  |-> IF body.data.some
                 THEN Put(s, SIZE_START - 1, LeBytes(Len(body.data.bytes), 4))
                 ELSE s,
     data |-> body.data]

\* ---- dict sub-protocol (dict.rs)
\* A dict message is [op, K, V, ...]: K and V are K::SIZE and V::SIZE, 0 for
\* a dynamic item type; an item is the bytes write_static or get_dynamic
\* gives for it; the entries of All are listed in the order dict.iter()
\* yields them.
DICT_ALL    == 20
DICT_SET    == 21
DICT_REMOVE == 22

RECURSIVE Concat(_)
Concat(ss) == IF ss = << >> THEN << >> ELSE Head(ss) \o Concat(Tail(ss))

KeysOf(items) == [i \in 1..Len(items) |-> items[i][1]]
ValsOf(items) == [i \in 1..Len(items) |-> items[i][2]]

\* A vec of u16 lengths, one per item, as the bytes it occupies.
SizesOf(ss) == Concat([i \in 1..Len(ss) |-> LeBytes(Len(ss[i]), 2)])

\* A Set or Remove goes into the header when it is smaller than the window
\* or as large.
FitsInlineLoose(size) == size <= MESS_SIZE

\* Lines 223 and 263: the test for writing a Set or Remove into the header.
FitsInline(size) == size < MESS_SIZE

\* An All decoder that accepts a payload with bytes behind the last entry.
AllLengthOkAtLeast(both, count, len) == both * count <= len

\* Line 300: the length a packed All payload must have.
AllLengthOk(both, count, len) == both * count = len

\* DictMessage::write_message(&self, head) of the All variant, lines 65-215.
DictWriteAll(b, slice) ==
    LET count == Len(b.items)
        keys  == KeysOf(b.items)
        vals  == ValsOf(b.items)
    IN [sub  |-> Put(Put(slice, 0, <<DICT_ALL>>), 1, LeBytes(count, 8)),
        data |-> IF count = 0 THEN None
                 ELSE IF b.K > 0 /\ b.V > 0
                 THEN Some(Concat([i \in 1..count |-> keys[i] \o vals[i]]))
                 ELSE IF b.K = 0 /\ b.V = 0
                 THEN Some(SizesOf(keys) \o SizesOf(vals) \o Concat(keys) \o Concat(vals))
                 ELSE IF b.K = 0
                 THEN Some(SizesOf(keys) \o Concat(vals) \o Concat(keys))
                 ELSE Some(SubSeq(SizesOf(vals), 1, count) \o Concat(keys) \o Concat(vals)),
        fits |-> 9 <= Len(slice)]

\* The Set variant, lines 217-255.
DictWriteSet(b, slice) ==
    LET s == Put(slice, 0, <<DICT_SET>>) IN
    IF b.K > 0 /\ b.V > 0 /\ FitsInline(b.K + b.V)
    THEN [sub  |-> Put(Put(s, 1, b.key), 1 + b.K, b.value),
          data |-> None,
          fits |-> 1 + b.K + b.V <= Len(slice)]
    ELSE [sub |-> s, data |-> Some(b.key \o b.value), fits |-> TRUE]

\* The Remove variant, lines 257-271.
DictWriteRemove(b, slice) ==
    LET s == Put(slice, 0, <<DICT_REMOVE>>) IN
    IF b.K > 0 /\ FitsInline(b.K)
    THEN [sub |-> Put(s, 1, b.key), data |-> None, fits |-> 1 + b.K <= Len(slice)]
    ELSE [sub |-> s, data |-> Some(b.key), fits |-> TRUE]

\* DictMessage::write_message; `fits` is FALSE when a write goes past the
\* end of the slice, which panics.
DictWrite(b, slice) ==
    CASE b.op = "All"    -> DictWriteAll(b, slice)
      [] b.op = "Set"    -> DictWriteSet(b, slice)
      [] b.op = "Remove" -> DictWriteRemove(b, slice)

\* K::read / K::read_item on a slice: SIZE bytes from its start, the whole
\* slice for a dynamic item type.
ReadItem(slice, size) == IF size > 0 THEN SubSeq(slice, 1, size) ELSE slice

DictErr(e) == [ok |-> FALSE, err |-> e]

\* HashMap::insert.
MapInsert(d, k, v) == {p \in d : p[1] # k} \cup {<<k, v>>}

RECURSIVE MapOf(_)
MapOf(items) ==
    IF items = << >> THEN {}
    ELSE LET n == Len(items) IN
         MapInsert(MapOf(SubSeq(items, 1, n - 1)), items[n][1], items[n][2])

\* One field of the decoder's scan loop at `pos`: SIZE bytes, or for a
\* dynamic item a u16 length and that many bytes.  ok is FALSE when the
\* slice it takes is out of range, which panics.
TakeField(data, pos, size) ==
    IF size > 0
    THEN IF pos + size > Len(data) THEN [ok |-> FALSE]
         ELSE [ok |-> TRUE, bytes |-> Slice(data, pos, pos + size), pos |-> pos + size]
    ELSE IF pos + 2 > Len(data) THEN [ok |-> FALSE]
         ELSE LET n == LeValue(Slice(data, pos, pos + 2)) IN
              IF pos + 2 + n > Len(data) THEN [ok |-> FALSE]
              ELSE [ok    |-> TRUE,
                    bytes |-> Slice(data, pos + 2, pos + 2 + n),
                    pos   |-> pos + 2 + n]

\* The scan loops of lines 353-367, 384-396 and 413-425: n rounds of a
\* field of size s1 and then a field of size s2, collected in a1 and a2.
RECURSIVE DictScan(_, _, _, _, _, _, _)
DictScan(data, n, pos, s1, s2, a1, a2) ==
    IF n = 0 THEN [ok |-> TRUE, first |-> a1, second |-> a2]
    ELSE LET f1 == TakeField(data, pos, s1) IN
         IF ~f1.ok THEN [ok |-> FALSE]
         ELSE LET f2 == TakeField(data, f1.pos, s2) IN
              IF ~f2.ok THEN [ok |-> FALSE]
              ELSE DictScan(data, n - 1, f2.pos, s1, s2, a1 \o f1.bytes, a2 \o f2.bytes)

\* The insert loops of lines 370-374, 399-403 and 428-432.  The length
\* vector was created with `count` zeros and the lengths were pushed
\* behind them, so entry i of it is 0 and a dynamic item is read from the
\* start of the collected bytes; a fixed item is read at i * SIZE.
DictCollect(count, K, V, kd, vd) ==
    MapOf([j \in 1..count |->
             <<ReadItem(Slice(kd, (j - 1) * K, Len(kd)), K),
               ReadItem(Slice(vd, (j - 1) * V, Len(vd)), V)>>])

\* read_message of the All variant, lines 284-462.
DictReadAll(sub, data, K, V) ==
    LET count == LeValue(Slice(sub, 1, 9)) IN
    IF count = 0
    THEN IF data.some THEN DictErr("Dict get data but should be empty.")
         ELSE [ok |-> TRUE, op |-> "All", map |-> {}]
    ELSE IF ~data.some THEN DictErr("Dict data is missing.")
    ELSE LET d == data.bytes IN
         IF K > 0 /\ V > 0
         THEN IF ~AllLengthOk(K + V, count, Len(d))
              THEN DictErr("Dict data is corrupted.")
              ELSE [ok |-> TRUE, op |-> "All",
                    map |-> MapOf([j \in 1..count |->
                               <<ReadItem(Slice(d, (j - 1) * (K + V), Len(d)), K),
                                 ReadItem(Slice(d, (j - 1) * (K + V) + K, Len(d)), V)>>])]
         ELSE IF K = 0 /\ V = 0 /\ count * 4 > Len(d)
         THEN DictErr("Dict data is corrupted.")
         ELSE LET s == IF V = 0 /\ K > 0
                          THEN DictScan(d, count, 0, V, K, << >>, << >>)
                          ELSE DictScan(d, count, 0, K, V, << >>, << >>)
              IN IF ~s.ok THEN DictErr("panic")
                 ELSE [ok |-> TRUE, op |-> "All",
                       map |-> IF V = 0 /\ K > 0
                                  THEN DictCollect(count, K, V, s.second, s.first)
                                  ELSE DictCollect(count, K, V, s.first, s.second)]

\* read_message of the Set variant, lines 464-483.
DictReadSet(sub, data, K, V) ==
    IF data.some
    THEN IF K + V # Len(data.bytes) THEN DictErr("Dict data is corrupted.")
         ELSE [ok |-> TRUE, op |-> "Set",
               key   |-> ReadItem(data.bytes, K),
               value |-> ReadItem(Slice(data.bytes, K, Len(data.bytes)), V)]
    ELSE IF K + V + 1 > MESS_SIZE THEN DictErr("Dict set failed to parse.")
         ELSE [ok |-> TRUE, op |-> "Set",
               key   |-> ReadItem(Slice(sub, 1, Len(sub)), K),
               value |-> ReadItem(Slice(sub, 1 + K, Len(sub)), V)]

\* read_message of the Remove variant, lines 485-502.
DictReadRemove(sub, data, K) ==
    IF data.some
    THEN IF K # Len(data.bytes) THEN DictErr("Dict data is corrupted.")
         ELSE [ok |-> TRUE, op |-> "Remove", key |-> ReadItem(data.bytes, K)]
    ELSE IF K + 1 > MESS_SIZE THEN DictErr("Dict remove failed to parse.")
         ELSE [ok |-> TRUE, op |-> "Remove", key |-> ReadItem(Slice(sub, 1, Len(sub)), K)]

\* DictMessage::<K, V>::read_message(head, data).
DictRead(sub, data, K, V) ==
    CASE sub[1] = DICT_ALL    -> DictReadAll(sub, data, K, V)
      [] sub[1] = DICT_SET    -> DictReadSet(sub, data, K, V)
      [] sub[1] = DICT_REMOVE -> DictReadRemove(sub, data, K)
      [] OTHER                -> DictErr("Unknown type of the dict message")

\* The kind-specific encoder called with &mut head[6..]; a body with op
\* "Raw" is a dict frame put together by a peer that is not this encoder.
InnerWrite(m, slice) ==
    IF m.kind = "Dict" /\ m.body.op # "Raw"
    THEN DictWrite(m.body, slice)
    ELSE RawWrite(m.body, slice)

\* An encoder that leaves the sign of byte 0 alone.
StampTypePlain(tag, data) == tag

\* Lines 165-166 (113-114 for a command): the sign of the type byte.
StampType(tag, data) == IF data.some THEN -tag ELSE tag

\* WriteMessage::parse(self, head): the header after it and the payload.
WriteMessageParse(m, head) ==
    IF m.kind = "Command"
    THEN LET w == CommandWrite(m.body, Slice(head, 1, HEAD_SIZE)) IN
         [head |-> Put(Put(head, 1, w.sub), 0,
                       <<AsU8(StampType(TYPE_COMMAND, w.data))>>),
          data |-> w.data]
    ELSE LET w    == InnerWrite(m, Slice(head, 6, HEAD_SIZE))
             data == IF m.kind = "Image" THEN Some(w.data.bytes) ELSE w.data
             flag == IF m.kind = "Signal" THEN FALSE ELSE m.flag
             h1   == Put(head, 6, w.sub)
             h2   == IF data.some
                        THEN Put(h1, SIZE_START, LeBytes(Len(data.bytes), 4))
                        ELSE h1
             h3   == Put(h2, 0, <<AsU8(StampType(TypeOf(m.kind), data))>>)
             h4   == Put(h3, 1, LeBytes(m.id, 4))
         IN [head |-> Put(h4, 5, <<IF flag THEN 1 ELSE 0>>), data |-> data]

\* write_message(head, data, stream): what goes onto the stream.
write_message(head, data) == head \o (IF data.some THEN data.bytes ELSE << >>)

\* A reader that takes the size from where an older header layout had it.
ReadSizeOld(head) == LeValue(Slice(head, MESS_SIZE - 8, MESS_SIZE - 4))

\* read_message line 72: the size field.
ReadSize(head) == LeValue(Slice(head, SIZE_START, HEAD_SIZE))

\* i8::abs as an optimised build computes it: i8::MIN has no positive
\* counterpart in 8 bits and comes back unchanged.
I8Abs(t) == IF t = -128 THEN -128 ELSE IF t < 0 THEN -t ELSE t

\* Whether i8::abs overflows: a build with overflow checks panics here.
AbsOverflows(t) == t = -128

\* The two ways the crate can be built.
Builds == {"debug", "release"}

\* read_message(head, stream) on the bytes `wire`: ok is FALSE when
\* read_exact does not get the bytes it asks for; overflow says whether
\* line 68 overflowed on the header it read.
read_message(wire) ==
    IF Len(wire) < HEAD_SIZE
    THEN [ok |-> FALSE, overflow |-> FALSE]
    ELSE LET head == SubSeq(wire, 1, HEAD_SIZE)
             t    == AsI8(head[1])
             size == IF t < 0 THEN ReadSize(head) ELSE 0
         IN IF Len(wire) < HEAD_SIZE + size
            THEN [ok |-> FALSE, overflow |-> AbsOverflows(t)]
            ELSE [ok   |-> TRUE,
                  overflow |-> AbsOverflows(t),
                  head |-> head,
                  type |-> I8Abs(t),
                  data |-> IF t < 0
                              THEN Some(SubSeq(wire, HEAD_SIZE + 1, HEAD_SIZE + size))
                              ELSE None,
                  rest |-> SubSeq(wire, HEAD_SIZE + size + 1, Len(wire))]

\* ReadMessage::parse(head, message_type, data).  The kind-specific parts of
\* a frame are kept as the bytes they arrived in.
ReadMessageParse(head, type, data) ==
    IF type = TYPE_COMMAND
    THEN [kind |-> "Command", id |-> 0, flag |-> FALSE,
          sub |-> Slice(head, 1, HEAD_SIZE), data |-> data]
    ELSE IF \E k \in CodecKinds : TypeOf(k) = type
    THEN LET k == CHOOSE k \in CodecKinds : TypeOf(k) = type IN
         [kind |-> k,
          id   |-> LeValue(Slice(head, 1, 5)),
          flag |-> IF k = "Signal" THEN FALSE ELSE head[6] # 0,
          sub  |-> Slice(head, 6, HEAD_SIZE),
          data |-> data]
    ELSE [kind |-> "error"]

\* ---- inputs of the codec
MaxFrames == 2   \* frames encoded with the same header buffer

CodecIds == {ValueId, 16909060}   \* 16909060 = 0x01020304

LongPayload == [i \in 1..258 |-> i % 256]

\* What an encoder outside the dict one may hand back: a few bytes or the
\* whole window written inline, no payload, an empty, a short or a long one.
RawBodies ==
    {[sub |-> <<7>>, data |-> d] :
        d \in {None, Some(<< >>), Some(<<1, 2, 3>>), Some(LongPayload)}}
    \cup {[sub |-> [i \in 1..MESS_SIZE |-> 200 + i], data |-> None]}

CommandBodies ==
    {[sub |-> <<20, 1, 0, 0, 0, 0, 0, 0, 0, 171>>, data |-> None],
     [sub |-> <<4, 10, 0, 0, 0>>, data |-> None],
     [sub |-> <<12>>, data |-> Some(<<101, 114, 114>>)]}

CodecInputs ==
    {m \in [kind : CodecKinds \ {"Dict"}, id : CodecIds, flag : BOOLEAN, body : RawBodies] :
        /\ m.kind = "Signal" => ~m.flag
        /\ m.kind # "Signal" => (m.flag <=> m.id # ValueId)
        /\ m.kind = "Image" => m.body.data.some}
    \cup [kind : {"Command"}, id : {0}, flag : {FALSE}, body : CommandBodies]

\* The writer thread encodes m into its header buffer and writes the frame.
CodecWrite(m) ==
    /\ cx_pc = "idle"
    /\ cx_n < MaxFrames
    /\ LET r == WriteMessageParse(m, cx_head) IN
        /\ cx_head' = r.head
        /\ cx_data' = r.data
        /\ cx_wire' = cx_wire \o write_message(r.head, r.data)
    /\ cx_msg' = m
    /\ cx_n' = cx_n + 1
    /\ cx_pc' = "sent"
    /\ UNCHANGED <<bvars, gvars, cx_got, chist, srvCfg, srvCtl, srvColl, hist, connected, queue, srvSlots, srvSig,
                   srvThr, srvXfer, hostVars, netVars, cliThr, cliVars>>

\* The reader thread reads one frame off the stream and parses it.  In a build
\* with overflow checks the thread panics at line 68 when the abs overflows,
\* after the header was read.
CodecRead(bld) ==
    /\ cx_pc = "sent"
    /\ LET r == read_message(cx_wire) IN
       IF r.overflow /\ bld = "debug"
       THEN /\ cx_got' = [kind |-> "panic"]
            /\ cx_wire' = SubSeq(cx_wire, HEAD_SIZE + 1, Len(cx_wire))
            /\ cx_pc' = "aborted"
       ELSE IF r.ok
       THEN /\ cx_got' = ReadMessageParse(r.head, r.type, r.data)
            /\ cx_wire' = r.rest
            /\ cx_pc' = "idle"
       ELSE /\ cx_got' = [kind |-> "blocked"]
            /\ cx_wire' = cx_wire
            /\ cx_pc' = "idle"
    /\ UNCHANGED <<bvars, gvars, cx_n, cx_head, cx_msg, cx_data, chist, srvCfg, srvCtl, srvColl, hist, connected,
                   queue, srvSlots, srvSig, srvThr, srvXfer, hostVars, netVars, cliThr, cliVars>>

NextCodec ==
    \/ \E m \in CodecInputs : CodecWrite(m)
    \/ \E bld \in Builds : CodecRead(bld)

SpecCodec == Init /\ [][NextCodec]_vars

\* ---- every value of header byte 0
\* Payload lengths a peer announces in a header whose byte 0 is negative.
HeadPayloads == {0, 2}

\* The 32 header bytes a peer sends: byte 0 is b, the size field is n.
PeerHeadBytes(b, n) ==
    Put([i \in 1..HEAD_SIZE |-> 0], SIZE_START, LeBytes(n, 4)) \o [i \in 1..n |-> 9]

\* A peer writes a frame whose header byte 0 is b, with n payload bytes when
\* the byte announces a payload.
PeerHead(b, n) ==
    /\ cx_pc = "idle"
    /\ cx_wire = << >>
    /\ AsI8(b) >= 0 => n = 0
    /\ cx_wire' = Put(PeerHeadBytes(b, n), 0, <<b>>)
    /\ cx_pc' = "sent"
    /\ UNCHANGED <<bvars, gvars, cx_n, cx_head, cx_msg, cx_data, cx_got, chist, srvCfg, srvCtl, srvColl, hist,
                   connected, queue, srvSlots, srvSig, srvThr, srvXfer, hostVars, netVars, cliThr,
                   cliVars>>

NextHead ==
    \/ \E b \in 0..255, n \in HeadPayloads : PeerHead(b, n)
    \/ \E bld \in Builds : CodecRead(bld)

SpecHead == Init /\ [][NextHead]_vars

\* ---- inputs of the dict codec
\* An item of a fixed-size type of n bytes.
Item(n, seed) == [i \in 1..n |-> (16 * seed + i) % 256]

FixedKeys(n) == {Item(n, 1), Item(n, 2)}
FixedVals(n) == {Item(n, 3), Item(n, 4)}
DynKeys == {<< >>, <<97>>}
DynVals == {<< >>, <<98, 99>>}

KeysFor(K) == IF K = 0 THEN DynKeys ELSE FixedKeys(K)
ValsFor(V) == IF V = 0 THEN DynVals ELSE FixedVals(V)

\* The iteration orders of the maps of at most two entries.
MapOrders(K, V) ==
    LET P == KeysFor(K) \X ValsFor(V) IN
    {<< >>} \cup {<<p>> : p \in P}
            \cup {o \in {<<p, q>> : p \in P, q \in P} : o[1][1] # o[2][1]}

\* Set and Remove at both sides of the inline limit.
SetSizes == {<<1, 1>>, <<8, 8>>, <<12, 13>>, <<13, 13>>, <<25, 1>>}
RemoveSizes == {1, 8, 25, 26}
AllSizes == {<<1, 1>>, <<8, 8>>}
DynSizes == {<<0, 0>>, <<0, 1>>, <<1, 0>>}

DictBodies ==
    UNION {{[op |-> "All", K |-> t[1], V |-> t[2], items |-> o] :
               o \in MapOrders(t[1], t[2])} : t \in AllSizes}
    \cup UNION {{[op |-> "Set", K |-> t[1], V |-> t[2], key |-> k, value |-> Item(t[2], 3)] :
               k \in FixedKeys(t[1])} : t \in SetSizes}
    \cup UNION {{[op |-> "Remove", K |-> n, V |-> 1, key |-> k] :
               k \in FixedKeys(n)} : n \in RemoveSizes}

DynDictBodies ==
    UNION {{[op |-> "All", K |-> t[1], V |-> t[2], items |-> o] :
               o \in {x \in MapOrders(t[1], t[2]) :
                         \A i \in 1..Len(x) : x[i][2] \in {<< >>, <<98, 99>>, Item(1, 3)}}} :
           t \in DynSizes}
    \cup UNION {{[op |-> "Set", K |-> t[1], V |-> t[2], key |-> k, value |-> v] :
               k \in KeysFor(t[1]), v \in {x \in ValsFor(t[2]) : x # Item(1, 4)}} :
           t \in DynSizes}
    \cup {[op |-> "Remove", K |-> 0, V |-> 1, key |-> k] : k \in DynKeys}

\* All frames for a slot of one-byte keys and values put together by a peer:
\* any count with any payload length.
RawDictBodies ==
    {[op |-> "Raw", K |-> 1, V |-> 1,
      sub |-> <<DICT_ALL>> \o LeBytes(c, 8), data |-> d] :
        c \in 0..2,
        d \in {None} \cup {Some([i \in 1..n |-> i]) : n \in 0..5}}

DictInputs ==
    [kind : {"Dict"}, id : {ValueId}, flag : {FALSE},
     body : DictBodies \cup DynDictBodies \cup RawDictBodies]

\* The reader thread reads a dict frame, and the slot it names, with item
\* types of K and V bytes, decodes it in update_dict.
DictRecv ==
    /\ cx_pc = "sent"
    /\ LET r == read_message(cx_wire) IN
       IF r.ok
       THEN /\ LET p == ReadMessageParse(r.head, r.type, r.data) IN
               cx_got' = [kind |-> p.kind, id |-> p.id, flag |-> p.flag,
                          sub |-> p.sub, data |-> p.data,
                          upd |-> DictRead(p.sub, p.data, cx_msg.body.K, cx_msg.body.V)]
            /\ cx_wire' = r.rest
       ELSE /\ cx_got' = [kind |-> "blocked"]
            /\ cx_wire' = cx_wire
    /\ cx_pc' = "idle"
    /\ UNCHANGED <<bvars, gvars, cx_n, cx_head, cx_msg, cx_data, chist, srvCfg, srvCtl, srvColl, hist, connected,
                   queue, srvSlots, srvSig, srvThr, srvXfer, hostVars, netVars, cliThr, cliVars>>

NextDict ==
    \/ \E m \in DictInputs : CodecWrite(m)
    \/ DictRecv

SpecDict == Init /\ [][NextDict]_vars

\* ------------------------------------------------------------- graph series
\* A series is [there, x, y]: x is NoX for a range (linear) axis and X(v)
\* for a paired one.  Elements are numbers; a GraphData carries them in the
\* order of its bytes, the x elements before the y elements.
MaxGraphOps == 3   \* host calls on the graph slot

NoX == [some |-> FALSE, v |-> << >>]
X(v) == [some |-> TRUE, v |-> v]

Series(x, y) == [there |-> TRUE, x |-> x, y |-> y]

\* Vec::resize(n, T::zero()).
Resize(s, n) == [i \in 1..n |-> IF i <= Len(s) THEN s[i] ELSE 0]

\* Graph::to_graph_data(None).
ToGraphData(g) ==
    [points    |-> Len(g.y),
     data      |-> IF g.x.some THEN g.x.v \o g.y ELSE g.y,
     is_linear |-> ~g.x.some]

\* Graph::from_graph_data.
FromGraphData(gd) ==
    IF gd.is_linear
    THEN Series(NoX, SubSeq(gd.data, 1, gd.points))
    ELSE Series(X(SubSeq(gd.data, 1, gd.points)),
                SubSeq(gd.data, gd.points + 1, 2 * gd.points))

\* Graph::add_points_from_data(&mut self, graph_data): the result and the
\* series after it.
AddPointsFromData(g, gd) ==
    IF g.x.some /\ ~gd.is_linear
    THEN LET old == Len(g.x.v) IN
         [ok |-> TRUE,
          g  |-> Series(X(g.x.v \o SubSeq(gd.data, 1, gd.points)),
                        SubSeq(Resize(g.y, old + gd.points), 1, old)
                            \o SubSeq(gd.data, gd.points + 1, 2 * gd.points))]
    ELSE IF ~g.x.some /\ gd.is_linear
    THEN [ok |-> TRUE, g |-> Series(NoX, g.y \o SubSeq(gd.data, 1, gd.points))]
    ELSE [ok |-> FALSE, g |-> g]

\* buffer_to_graph(buffer, range, Some(graph)): `linear` says that a range
\* came with the points, p is [x, y].
BufferToGraphAdd(g, linear, p) ==
    IF linear
    THEN IF g.x.some THEN [ok |-> FALSE, g |-> g]
         ELSE [ok |-> TRUE, g |-> Series(NoX, g.y \o p.y)]
    ELSE IF g.x.some
         THEN [ok |-> TRUE, g |-> Series(X(g.x.v \o p.x), g.y \o p.y)]
         ELSE [ok |-> FALSE, g |-> g]

\* What the host passes: two points for a new series, one point to add.
SetPoints == [x |-> <<1, 2>>, y |-> <<5, 6>>]
AddPoints == [x |-> <<3>>, y |-> <<7>>]

\* ValueGraphs::set_py; conn is what the load of `connected` gives.
HostGraphSetPy(linear, conn) ==
    /\ g_ops < MaxGraphOps
    /\ g_ops' = g_ops + 1
    /\ LET g == IF linear THEN Series(NoX, SetPoints.y)
                          ELSE Series(X(SetPoints.x), SetPoints.y)
       IN /\ g_srv' = g
          /\ g_out' = IF conn THEN Append(g_out, [cmd |-> "Set", gd |-> ToGraphData(g)])
                              ELSE g_out
    /\ g_ret' = "ok"
    /\ UNCHANGED <<bvars, g_pack, g_cli, g_rx, codec, chist, srvCfg, srvCtl, srvColl, hist, connected, queue,
                   srvSlots, srvSig, srvThr, srvXfer, hostVars, netVars, cliThr, cliVars>>

\* ValueGraphs::add_points_py: the result of buffer_to_graph is dropped
\* (`let _ =`), the message is sent and Ok(()) returned.
HostGraphAddPy(linear, conn) ==
    /\ g_ops < MaxGraphOps
    /\ g_ops' = g_ops + 1
    /\ IF ~g_srv.there
       THEN /\ g_ret' = "err"
            /\ UNCHANGED <<g_srv, g_out>>
       ELSE LET r == BufferToGraphAdd(g_srv, linear, AddPoints) IN
            /\ g_srv' = r.g
            /\ g_out' = IF conn
                           THEN Append(g_out, [cmd |-> "AddPoints", gd |-> ToGraphData(r.g)])
                           ELSE g_out
            /\ g_ret' = "ok"
    /\ UNCHANGED <<bvars, g_pack, g_cli, g_rx, codec, chist, srvCfg, srvCtl, srvColl, hist, connected, queue,
                   srvSlots, srvSig, srvThr, srvXfer, hostVars, netVars, cliThr, cliVars>>

\* The client's graph slot applies the next inbound message.
ClientGraphApply ==
    /\ g_out # << >>
    /\ g_out' = Tail(g_out)
    /\ LET m == Head(g_out) IN
       IF m.cmd = "Set"
       THEN /\ g_cli' = FromGraphData(m.gd)
            /\ g_rx' = "ok"
       ELSE IF ~g_cli.there
       THEN /\ g_cli' = g_cli
            /\ g_rx' = "err"
       ELSE LET r == AddPointsFromData(g_cli, m.gd) IN
            /\ g_cli' = r.g
            /\ g_rx' = IF r.ok THEN "ok" ELSE "err"
    /\ UNCHANGED <<bvars, g_pack, g_srv, g_ret, g_ops, codec, chist, srvCfg, srvCtl, srvColl, hist, connected,
                   queue, srvSlots, srvSig, srvThr, srvXfer, hostVars, netVars, cliThr, cliVars>>

NextGraph ==
    \/ \E linear \in BOOLEAN, conn \in BOOLEAN : HostGraphSetPy(linear, conn)
    \/ \E linear \in BOOLEAN, conn \in BOOLEAN : HostGraphAddPy(linear, conn)
    \/ ClientGraphApply

SpecGraph == Init /\ [][NextGraph]_vars

\* ---- Graph::to_graph_data with a point selection
\* size_of::<T>() of the two element types, f32 and f64.
ElemSizes == {4, 8}

\* The argument `points`: None, or Some(p).
PackArgs ==
    {[some |-> FALSE, p |-> 0]}
    \cup {[some |-> TRUE, p |-> p] : p \in 0..(MaxGraphOps + 2)}

\* Line 36: ptr_pos, later handed to `as_ptr().add(..)`, which counts elements.
PtrPos(size, len, points) == size * (len - points)

\* Values found in memory that is not part of the vector.
JunkVals == {0, 9}

\* What a read through a pointer outside the vector can do: the process is
\* killed, or the call returns whatever the memory held.  With no point
\* selected nothing is read through the pointer.
OutOfBounds(points, linear) ==
    (IF points > 0 THEN {[kind |-> "killed"]} ELSE {})
    \cup {[kind |-> "ok",
           gd   |-> [points    |-> points,
                     data      |-> [i \in 1..(IF linear THEN points ELSE 2 * points) |-> j],
                     is_linear |-> linear]] : j \in JunkVals}

\* slice::from_raw_parts(v.as_ptr().add(pos), n), inside the vector.
RawParts(v, pos, n) == SubSeq(v, pos + 1, pos + n)

\* Graph::to_graph_data(points) on element type of `size` bytes; ub is the
\* outcome taken when the pointer leaves the vector.
to_graph_data(g, arg, size, ub) ==
    IF arg.some /\ arg.p > Len(g.y)
    THEN [kind |-> "panic"]
    ELSE IF ~arg.some
    THEN [kind |-> "ok", gd |-> ToGraphData(g)]
    ELSE LET pos == PtrPos(size, Len(g.y), arg.p) IN
         IF pos + arg.p > Len(g.y)
         THEN ub
         ELSE [kind |-> "ok",
               gd   |-> [points    |-> arg.p,
                         data      |-> IF g.x.some
                                          THEN RawParts(g.x.v, pos, arg.p)
                                                   \o RawParts(g.y, pos, arg.p)
                                          ELSE RawParts(g.y, pos, arg.p),
                         is_linear |-> ~g.x.some]]

\* A caller packs the server's series.
GraphPack(arg, size, ub) ==
    /\ g_srv.there
    /\ ub \in OutOfBounds(arg.p, ~g_srv.x.some)
    /\ g_pack' = [called |-> TRUE, arg |-> arg,
                  res |-> to_graph_data(g_srv, arg, size, ub)]
    /\ UNCHANGED <<bvars, g_srv, g_cli, g_out, g_ret, g_rx, g_ops, codec, chist, srvCfg, srvCtl, srvColl,
                   hist, connected, queue, srvSlots, srvSig, srvThr, srvXfer, hostVars, netVars,
                   cliThr, cliVars>>

\* The values a junk read can give, for every length.
PackOutcomes ==
    UNION {OutOfBounds(p, l) : p \in 0..(MaxGraphOps + 2), l \in BOOLEAN}

NextPack ==
    \/ \E linear \in BOOLEAN, conn \in BOOLEAN : HostGraphSetPy(linear, conn)
    \/ \E linear \in BOOLEAN, conn \in BOOLEAN : HostGraphAddPy(linear, conn)
    \/ \E arg \in PackArgs, size \in ElemSizes, ub \in PackOutcomes : GraphPack(arg, size, ub)

SpecPack == Init /\ [][NextPack]_vars

\* --------------------------------------------------------- registry builders
MaxAdds == 3   \* add_* calls on a builder

\* The add_* methods of ValuesCreator and the dispatch map each inserts
\* into; add_signal inserts into none.
Shapes == {"value", "static_value", "image", "enum", "signal", "dict", "list", "graph"}

MapOfShape(shape) ==
    CASE shape = "value"        -> "values"
      [] shape = "enum"         -> "values"
      [] shape = "static_value" -> "static_values"
      [] shape = "image"        -> "images"
      [] shape = "dict"         -> "dicts"
      [] shape = "list"         -> "lists"
      [] shape = "graph"        -> "graphs"
      [] OTHER                  -> "none"

\* A get_id that counts before it hands the id out.
get_id_pre(counter) == [id |-> counter + 1, counter |-> counter + 1]

\* ValuesCreator::get_id: the id handed out and the counter after it.
get_id(counter) == [id |-> counter, counter |-> counter + 1]

\* One add_* call on the client builder.
AddSlot(shape) ==
    /\ Len(b_slots) < MaxAdds
    /\ LET r == get_id(b_cnt) IN
        /\ b_cnt' = r.counter
        /\ b_slots' = Append(b_slots, [shape |-> shape, id |-> r.id])
        /\ b_maps' = IF MapOfShape(shape) = "none" THEN b_maps
                     ELSE [b_maps EXCEPT ![MapOfShape(shape)] = @ \cup {r.id}]
    /\ UNCHANGED <<sb_cnt, sb_slots, gvars, codec, chist, srvCfg, srvCtl, srvColl, hist, connected,
                   queue, srvSlots, srvSig, srvThr, srvXfer, hostVars, netVars, cliThr, cliVars>>

\* The server builder is given the add call the client builder was given at
\* the same position.
SrvAddSlot ==
    /\ Len(sb_slots) < Len(b_slots)
    /\ LET r == get_id(sb_cnt) IN
        /\ sb_cnt' = r.counter
        /\ sb_slots' = Append(sb_slots, [shape |-> b_slots[Len(sb_slots) + 1].shape, id |-> r.id])
    /\ UNCHANGED <<b_cnt, b_slots, b_maps, gvars, codec, chist, srvCfg, srvCtl, srvColl, hist,
                   connected, queue, srvSlots, srvSig, srvThr, srvXfer, hostVars, netVars, cliThr,
                   cliVars>>

NextBuild ==
    \/ \E shape \in Shapes : AddSlot(shape)
    \/ SrvAddSlot

SpecBuild == Init /\ [][NextBuild]_vars

\* ------------------------------------------------------------------ claims
\* Shapes of frames the properties speak about.
IsValueFrame(m) == m.kind = "Value" /\ m.id \in ValueIds /\ Decodes(m)

IsAck(m) == m.kind = "Command" /\ m.cmd = "Ack"

IsHandshake(m) == m.kind = "Command" /\ m.cmd = "Handshake"

AckCount(q) == Len(SelectSeq(q, IsAck))

\* An established session at rest: the server thread is back at accept, both
\* transfer threads and both client threads run on the same open stream, no
\* host call is in progress, and both channels and both directions of the
\* stream are empty.
Quiescent ==
    /\ connected
    /\ srv_pc = "listen" /\ holder = "Transfer" /\ sync_snap = NoSnap
    /\ rd_pc = "run" /\ wr_pc = "run"
    /\ cl_pc = "run" /\ crd_pc = "run" /\ cwr_pc = "run"
    /\ cl_conn = rd_conn
    /\ sock[rd_conn] = "open"
    /\ \A h \in Hosts : host_pc[h] = "idle"
    /\ queue = << >> /\ cq = << >>
    /\ c2s[rd_conn] = << >> /\ s2c[rd_conn] = << >>

\* The server reader takes frame m off the stream of a live session.
SrvReads(m) ==
    /\ SrvReaderStep("frame")
    /\ connected
    /\ m = Head(c2s[rd_conn])

\* The client reader takes frame m off its stream.
CliReads(m) ==
    /\ ClientReaderStep("frame")
    /\ m = Head(s2c[cl_conn])

\* C1: Convergence.  In an established session at rest (no set in progress,
\* every enqueued frame and Ack delivered and processed) the server mirror and
\* the client mirror of every value slot are equal, for every interleaving of
\* server sets, client sets, the sync sweep and Ack processing.
C1_Convergence ==
    Quiescent => \A id \in ValueIds : s_val[id] = c_val[id]

\* C2: When the server processes an inbound value for a value slot, the mirror
\* becomes the inbound value if the pending-write counter is zero and is left
\* unchanged otherwise; the counter is unchanged either way; exactly one
\* notifier event (slot id, inbound value) is emitted if and only if the
\* frame's signal flag is set, also when the mirror was not overwritten.
C2_ProcessValue ==
    [][\A m \in {Head(c2s[c]) : c \in {d \in ConnIds : c2s[d] # << >>}} :
          SrvReads(m) /\ IsValueFrame(m) =>
            /\ s_val' = [s_val EXCEPT ![m.id] =
                            IF s_cnt[m.id] = 0 THEN m.val ELSE s_val[m.id]]
            /\ s_cnt' = s_cnt
            /\ IF m.flag
                  THEN /\ sig_n' = sig_n + 1
                       /\ sig_last' = [id |-> m.id, val |-> m.val, txt |-> ""]
                  ELSE /\ sig_n' = sig_n
                       /\ sig_last' = sig_last]_vars

\* C2 witness: the notifier holds the event of a client value that arrived
\* while the counter was above zero, and the mirror kept the server's value.
C2_Witness ==
    /\ sig_last.id \in ValueIds
    /\ sig_last.val \in CliVals
    /\ s_cnt[sig_last.id] > 0
    /\ s_val[sig_last.id] \notin CliVals

C4_CounterZeroAtRest ==
    Quiescent => \A id \in ValueIds : s_cnt[id] = 0

\* C4 witness: a session at rest after a host set reached the client, with
\* the counter at zero.
C4_Witness ==
    /\ Quiescent
    /\ srv_sets > 0
    /\ \E id \in ValueIds : c_val[id] \in SrvVals /\ s_cnt[id] = 0


\* First frames waiting on some stream, in each direction.
SrvHeads == {Head(c2s[c]) : c \in {d \in ConnIds : c2s[d] # << >>}}

CliHeads == {Head(s2c[c]) : c \in {d \in ConnIds : s2c[d] # << >>}}

\* C5: The client reader acknowledges value updates: for every inbound VALUE
\* frame whose slot id is registered and whose payload decodes it overwrites
\* the mirror and enqueues exactly one Ack(slot id); inbound Static, Image,
\* Dict, List and Graph frames, and VALUE frames that fail to decode or name
\* an unknown slot, produce no Ack.
C5_ClientAck ==
    [][\A m \in CliHeads :
          CliReads(m) =>
            IF IsValueFrame(m)
            THEN /\ c_val' = [c_val EXCEPT ![m.id] = m.val]
                 /\ cq' = Append(cq, AckMsg(m.id))
            ELSE AckCount(cq') = AckCount(cq)]_vars

\* C5 witness: the client has adopted a VALUE frame and a Static frame, and
\* exactly one Ack left the reader.
C5_Witness ==
    /\ cl_pc = "run"
    /\ c_val[ValueId] = 1
    /\ c_val[StaticId] = 2
    /\ AckCount(cq) + AckCount(c2s[cl_conn]) = 1

CliPending(id) ==
    \/ \E i \in DOMAIN cq : cq[i].kind = "Value" /\ cq[i].id = id
    \/ /\ cl_conn \in ConnIds
       /\ \E i \in DOMAIN c2s[cl_conn] :
             c2s[cl_conn][i].kind = "Value" /\ c2s[cl_conn][i].id = id

ValidHandshake(m) ==
    /\ IsHandshake(m)
    /\ m.val = version
    /\ handshake.some => m.id \in handshake.list

\* C8: The server sets connected=true and spawns a reader/writer pair for an
\* accepted socket only if the first frame read from that socket is
\* Handshake(version, token) with the server's version and, when an allow-list
\* is configured, a token in it; with no allow-list every token is accepted.
C8_SessionOnlyAfterHandshake ==
    [][/\ \/ connected' /\ ~connected
          \/ rd_pc' = "run" /\ rd_pc # "run"
          \/ wr_pc' = "run" /\ wr_pc # "run"
          => /\ ValidHandshake(srv_frame)
             /\ sock[srv_conn] \in {"open", "open_eof"}
       /\ rd_pc' = "run" /\ rd_pc # "run" => rd_conn' = srv_conn
       /\ \A c \in ConnIds :
             /\ SrvHandshake(c)
             /\ c2s[c] # << >>
             /\ IsHandshake(Head(c2s[c]))
             /\ Head(c2s[c]).val = version
             /\ ~handshake.some
             => srv_pc' = "hs_prev"]_vars

\* C8 witness: with no allow-list a session runs on a socket whose handshake
\* carried a token the other configuration refuses.
C8_Witness ==
    /\ ~handshake.some
    /\ connected /\ rd_pc = "run" /\ wr_pc = "run"
    /\ rd_conn = srv_conn
    /\ srv_frame.id = 2

\* C9: Handshake reject.  When the first frame is a Handshake whose version
\* differs from the server's, or whose token is not in the configured
\* allow-list, the server emits one error with slot id 0 (the "different
\* version" text for a version mismatch), closes the socket, runs no drain and
\* no sync, spawns no threads and is listening again; a valid Handshake is
\* accepted whatever was refused before.
C9_HandshakeReject ==
    [][\A c \in ConnIds :
          SrvHandshake(c) /\ c2s[c] # << >> /\ IsHandshake(Head(c2s[c])) =>
            LET m == Head(c2s[c]) IN
            IF ValidHandshake(m)
            THEN srv_pc' = "hs_prev"
            ELSE /\ sig_n' = sig_n + 1
                 /\ sig_last'.id = 0
                 /\ m.val # version =>
                       sig_last'.txt = "Attempted to connect with different version"
                 /\ sock'[c] = "srv_closed"
                 /\ srv_pc' = "listen"
                 /\ UNCHANGED <<connected, queue, s_val, s_cnt, holder, sync_todo,
                                sync_snap, rd_pc, wr_pc, rd_conn>>]_vars

\* C9 witness: the only event so far is the version error of the first
\* socket, which is closed, and a session runs on the second socket.
C9_Witness ==
    /\ sig_n = 1
    /\ sig_last = [id |-> 0, val |-> 0,
                   txt |-> "Attempted to connect with different version"]
    /\ sock[1] = "srv_closed"
    /\ connected /\ rd_pc = "run" /\ rd_conn = 2

\* C10: When the first frame read from a newly accepted socket parses but is
\* not a Handshake, the server emits an error via the change notifier, closes
\* the socket, establishes no session and is listening again.
C10_NonHandshakeRefused ==
    [][\A c \in ConnIds :
          /\ SrvHandshake(c)
          /\ c2s[c] # << >>
          /\ Head(c2s[c]).kind # "Garbage"
          /\ ~IsHandshake(Head(c2s[c]))
          => /\ sig_n' = sig_n + 1
             /\ sig_last'.id = 0
             /\ sock'[c] = "srv_closed"
             /\ srv_pc' = "listen"
             /\ UNCHANGED <<connected, holder, rd_pc, wr_pc>>]_vars

\* ------------------------------------------------------------------ C11
\* C11: a host set_py whose write-lock section runs while connected = false
\* changes only the mirror: the outbound queue and the pending-write counter
\* of the slot stay as they were.
C11_DisconnectedSetIsLocal ==
    [][\A h \in Hosts :
          HostSetStore(h) /\ ~connected
              => /\ queue' = queue
                 /\ s_cnt' = s_cnt
                 /\ s_val'[host_arg[h].id] = host_arg[h].val]_vars

\* ------------------------------------------------------------------ C12
\* C12: whatever was in the server's outbound queue when a handshake was
\* accepted is gone before the new session starts: such messages outlive only
\* the steps between the acceptance and the drain (where the previous writer
\* may still take them), and StatesTransfer::start runs with none of them
\* left and with nothing written to the new stream.
C12_ReconnectDrain ==
    /\ [](stale > 0 => srv_pc \in {"hs_prev", "hs_join", "hs_conn", "hs_drain"})
    /\ [][SrvSpawn => stale = 0 /\ s2c[srv_conn] = << >>]_vars

\* The drain of a reconnect has discarded a Terminate left by the previous
\* session, and the sweep that follows has begun.
C12_Witness ==
    /\ srv_pc = "hs_sync"
    /\ drained > 0
    /\ rd_conn # 0
    /\ stale = 0

\* ------------------------------------------------------------------ C13
\* The sync() call of the sweep on each kind of slot.
SyncCall(id) ==
    CASE id = StaticId -> SrvSyncStatic
      [] id = DictId   -> SrvSyncDict
      [] id = GraphId  -> SrvSyncGraph
      [] OTHER         -> SrvSyncLock(id)

\* What sync() builds for the slot `id`, read off the mirrors: msgs is the
\* sequence it hands to the channel.
SyncBuilds(id, msgs) ==
    CASE id = StaticId -> msgs = <<StaticMsg(StaticId, FALSE, s_static)>>
      [] id = DictId   -> msgs = <<DictMsg("All", FALSE, DictCode(s_dict))>>
      [] id = GraphId  ->
            /\ Len(msgs) = 1 + Cardinality(s_graph)
            /\ msgs[1] = GraphMsg("Reset", FALSE, 0)
            /\ \A i \in 2..Len(msgs) : msgs[i].cmd = "Set" /\ ~msgs[i].flag
            /\ {msgs[i].val : i \in 2..Len(msgs)} = s_graph
      [] OTHER         -> /\ msgs = <<ValueMsg(id, FALSE, s_val[id])>>
                          /\ s_cnt'[id] = 1

\* C13: each accepted handshake runs the sweep after the drain and before the
\* transfer threads start.  The drain hands every registered slot to the sweep;
\* sync() runs on a slot only while the slot is still due, and that takes the
\* slot off the list, so it runs once; nothing else touches the list; the
\* threads are spawned only when the list is empty and every message built
\* was sent.  A value slot's sync sets the counter to 1 and builds one VALUE
\* frame with the mirror and flag = false, a dict's one All, a graph's a Reset
\* followed by one Set per series.
C13_SyncSweep ==
    [][/\ SrvDrain => queue' = << >> /\ sync_todo' = sync_ids
       /\ \A id \in sync_ids :
             SyncCall(id) => /\ srv_pc = "hs_sync"
                             /\ id \in sync_todo
                             /\ sync_todo' = sync_todo \ {id}
                             /\ SyncBuilds(id, sync_snap')
       /\ SrvSyncSend => queue' = Append(queue, Head(sync_snap))
       /\ sync_todo' # sync_todo => SrvDrain \/ \E id \in sync_ids : SyncCall(id)
       /\ SrvSpawn => /\ sync_todo = {} /\ sync_snap = NoSnap
                       /\ \A id \in sync_ids :
                             \E i \in 1..Len(queue) : queue[i].id = id /\ ~queue[i].flag
      ]_vars

\* A finished sweep over a graph of two series: the queue holds the VALUE, the
\* static and the All frame, then Reset and two Sets, and the counter is 1.
C13_Witness ==
    /\ srv_pc = "hs_sync" /\ sync_todo = {} /\ sync_snap = NoSnap
    /\ s_graph = GraphIdx
    /\ s_cnt[ValueId] = 1
    /\ Len(queue) = 6
    /\ queue[1].kind = "Value" /\ queue[3].cmd = "All"
    /\ queue[4].cmd = "Reset" /\ queue[5].cmd = "Set" /\ queue[6].cmd = "Set"

\* ------------------------------------------------------------------ C14
\* C14: the server has one session at most, and the receiver of the outbound
\* channel has one holder.  The server thread holds it exactly while no
\* transfer thread exists, and it drains and sweeps only then; a writer (the
\* other consumer) exists only together with its reader; st.join() returns
\* only after both threads have returned, and StatesTransfer::start runs only
\* when no thread of an earlier session is left and the receiver is back.
C14_SingleSession ==
    /\ [](/\ holder = "Rx" <=> (rd_pc = "off" /\ wr_pc = "off")
          /\ srv_pc \in {"hs_conn", "hs_drain", "hs_sync"} => holder = "Rx"
          /\ wr_pc = "run" => rd_pc \in {"run", "term", "join"}
          /\ rd_pc = "done" => wr_pc = "done")
    /\ [][/\ SrvJoin => rd_pc = "done" /\ wr_pc = "done"
          /\ SrvSpawn => rd_pc = "off" /\ wr_pc = "off" /\ holder = "Rx"
         ]_vars

\* The second session is about to start: the threads of the first one were
\* joined and the receiver is back with the server thread.
C14_Witness ==
    /\ srv_pc = "hs_sync" /\ sync_todo = {} /\ sync_snap = NoSnap
    /\ holder = "Rx"
    /\ rd_conn # 0 /\ srv_conn # rd_conn
    /\ rd_pc = "off" /\ wr_pc = "off"

\* ------------------------------------------------------------------ C15
\* The stream c grew by the frame m at its end, or stayed as it was.
WroteOrNot(old, new, c, m) == new = old \/ new = [old EXCEPT ![c] = Append(@, m)]

\* C15: messages leave a channel in the order they entered it, and frames
\* leave a stream in the order they were written.  Each writer step takes the
\* oldest message of its channel and writes nothing but that message, at the
\* end of the stream; a channel otherwise only grows at its end (or is
\* drained by the server thread between two sessions); each reader step takes
\* the oldest frame of its stream, and the client reader applies that frame.
C15_Fifo ==
    [][/\ \A o \in Outcomes :
             SrvWriterStep(o) => /\ queue' = Tail(queue)
                                 /\ WroteOrNot(s2c, s2c', rd_conn, Head(queue))
       /\ \A o \in Outcomes :
             ClientWriterStep(o) => /\ cq' = Tail(cq)
                                    /\ WroteOrNot(c2s, c2s', cl_conn, Head(cq))
       /\ Len(queue') < Len(queue) => SrvDrain \/ \E o \in Outcomes : SrvWriterStep(o)
       /\ Len(queue') >= Len(queue) => SubSeq(queue', 1, Len(queue)) = queue
       /\ SrvReaderStep("frame") => c2s' = [c2s EXCEPT ![rd_conn] = Tail(@)]
       /\ ClientReaderStep("frame") =>
             /\ s2c' = [s2c EXCEPT ![cl_conn] = Tail(@)]
             /\ c_val' \in {c_val, HandleMessage(Head(s2c[cl_conn]), c_val).val}
      ]_vars

\* A session whose writer has written two frames the client has not read yet
\* while a third message waits in the channel.
C15_Witness ==
    /\ rd_pc = "run" /\ wr_pc = "run"
    /\ Len(s2c[rd_conn]) >= 2
    /\ queue # << >>

\* ------------------------------------------------------------------ C16
\* C16: a local set on a value slot whose write-lock section runs while
\* connected = true writes the mirror, raises the counter by one and enqueues
\* its VALUE frame in that one section, so that mirror writes and enqueues
\* happen in the same order and the newest frame carries the mirror.
C16_SetOrder ==
    [][\A h \in Hosts :
          HostSetStore(h) /\ connected
              => LET a == host_arg[h] IN
                 /\ s_val'[a.id] = a.val
                 /\ s_cnt'[a.id] = s_cnt[a.id] + 1
                 /\ queue' = Append(queue, ValueMsg(a.id, FALSE, a.val))]_vars

\* ------------------------------------------------------------------ C17
\* C17: while enabled = false (stop() has stored it and no start() has stored
\* true since) the server thread does not store connected = true, runs no
\* step of the sync sweep and spawns no transfer threads.
C17_IdleNoSession ==
    [][~enabled => /\ ~SrvConnected
                   /\ ~SrvDrain
                   /\ \A id \in sync_ids : ~SrvSyncLock(id)
                   /\ ~SrvSpawn]_vars

\* ------------------------------------------------------------------ C18
\* stop() has returned, no start() followed, and the server has nothing left
\* to do: its thread waits for the start event, the channel and the streams
\* are empty and no connection is pending.
StopSettled ==
    /\ ~enabled /\ ctl_pc = "idle"
    /\ srv_pc = "wait"
    /\ queue = << >>
    /\ \A c \in ConnIds : c2s[c] = << >> /\ sock[c] \notin {"backlog", "backlog_eof", "open_eof"}

\* C18: once a stopped server has settled, connected is false and the reader
\* and the writer of the last session have exited.
C18_StopSettles ==
    StopSettled => /\ ~connected
                   /\ rd_pc \in {"off", "done"}
                   /\ wr_pc \in {"off", "done"}

\* ------------------------------------------------------------------ C19
\* The event a transport error hands to the notifier.
TransportEvent(txt) == [id |-> 0, val |-> 0, txt |-> txt]

\* Both threads of the session have returned (or were joined already).
TransferEnded == rd_pc \in {"done", "off"} /\ wr_pc \in {"done", "off"}

\* C19: a read that fails in the reader of an established session, and a
\* write that fails in the writer, store connected = false and hand one event
\* with slot id 0 to the notifier; and once either thread has left its loop,
\* both threads end and the receiver is returned, with no step of the peer.
C19_ErrorTeardown ==
    /\ [][/\ SrvReaderStep("error") /\ connected
                => /\ ~connected'
                   /\ sig_n' = sig_n + 1
                   /\ sig_last' = TransportEvent("Error reading message")
                   /\ rd_pc' = "term"
          /\ SrvWriterStep("error")
                => /\ ~connected'
                   /\ sig_n' = sig_n + 1
                   /\ sig_last' = TransportEvent("Error writing message")
                   /\ wr_pc' = "done"
         ]_vars
    /\ (rd_pc \in {"term", "join"} \/ wr_pc = "done") ~> TransferEnded

\* A session that ended on a write error: both threads have returned.
C19_Witness ==
    /\ rd_pc = "done" /\ wr_pc = "done"
    /\ ~connected
    /\ sig_last = TransportEvent("Error writing message")

\* ------------------------------------------------------------------ C20
\* C20: a writer step that dequeued Terminate, or that dequeued a message
\* while connected = false, writes nothing: it shuts the stream down and ends
\* the thread, and what was queued behind the message stays in the channel.
\* No frame is written to any stream unless the writer is running.
C20_WriterStops ==
    [][/\ \A o \in Outcomes :
             SrvWriterStep(o) /\ (Head(queue) = Terminate \/ ~connected)
                => /\ s2c' = s2c
                   /\ sock'[rd_conn] = "srv_closed"
                   /\ wr_pc' = "done"
                   /\ queue' = Tail(queue)
       /\ wr_pc # "run" => \A c \in ConnIds : Len(s2c'[c]) <= Len(s2c[c])
      ]_vars

\* The writer has stopped and shut the stream down (the reader has not
\* noticed yet), and a message it never looked at is still in the channel.
C20_Witness ==
    /\ wr_pc = "done" /\ rd_pc = "run"
    /\ sock[rd_conn] = "srv_closed"
    /\ queue # << >>
    /\ Head(queue).kind = "Value"

\* ------------------------------------------------------------------ C21
\* The frames the server reader refuses: one that does not parse, an Error
\* command, a command other than Ack and Error, an Ack for an id that is not
\* registered, a Value or Signal frame for such an id, a frame of another kind.
SrvRefuses(m) ==
    \/ m.kind = "Garbage"
    \/ m.kind = "Command" /\ m.cmd # "Ack"
    \/ m.kind = "Command" /\ m.cmd = "Ack" /\ m.id \notin ValueIds
    \/ m.kind \in {"Value", "Signal"} /\ m.id \notin ValueIds
    \/ m.kind \notin {"Value", "Signal", "Command", "Garbage"}

\* C21: when the reader of an established session reads a frame it refuses
\* (an Error command of the peer included), it hands exactly one event with
\* slot id 0 to the notifier, leaves every mirror, every counter and
\* `connected` as they were, and stays in its loop with the frame consumed.
C21_ReaderReports ==
    [][(SrvReaderStep("frame") /\ connected /\ SrvRefuses(Head(c2s[rd_conn])))
          => /\ sig_n' = sig_n + 1
             /\ sig_last'.id = 0
             /\ s_val' = s_val
             /\ s_cnt' = s_cnt
             /\ connected' = connected
             /\ rd_pc' = "run"
             /\ c2s'[rd_conn] = Tail(c2s[rd_conn])]_vars

\* Two refused frames were read, the second an Error command, while a host
\* write was pending: the session is still up and the counter still 1.
C21_Witness ==
    /\ sig_n = 2
    /\ sig_last.txt = "Error message from UI client"
    /\ connected /\ rd_pc = "run"
    /\ s_cnt[ValueId] = 1

\* ------------------------------------------------------------------ C22
\* C22: whenever the client read thread leaves its loop (after a socket read
\* error, a parse error or a dispatch error) it has put exactly one Error
\* command on the outbound channel, and the Terminate token of the teardown
\* is put on the channel only after the read thread is gone.
C22_ReaderForwardsError ==
    [][/\ (\E o \in Outcomes : ClientReaderStep(o)) /\ crd_pc' = "done"
           => /\ Len(cq') = Len(cq) + 1
              /\ cq'[Len(cq')].kind = "Command"
              /\ cq'[Len(cq')].cmd = "Error"
       /\ ClientJoinReader => crd_pc = "done" /\ cq' = Append(cq, Terminate)]_vars

\* ------------------------------------------------------------------ C23
\* The client thread is back at wait_connection with the receiver in hand.
ClientIdleAgain ==
    /\ cl_pc = "wait" /\ ui_state = "Disconnected"
    /\ crd_pc = "off" /\ cwr_pc = "off"

\* C23: once the client read thread has ended, the client thread puts
\* Terminate on the channel, the send thread ends (it may have ended before,
\* after a failed write), the join hands the receiver back, the state becomes
\* Disconnected and the client thread waits for the next connect signal; the
\* next connect starts a new send thread on the same channel.
C23_ClientTeardown ==
    /\ [][/\ ClientJoinReader => crd_pc = "done" /\ cq' = Append(cq, Terminate)
          /\ ClientJoinWriter => cwr_pc = "done" /\ ClientIdleAgain'
          /\ (\E c \in ConnIds : ClientConnect(c))
                => cwr_pc = "off" /\ cwr_pc' = "hs" /\ crd_pc' = "run"]_vars
    /\ (crd_pc = "done" ~> ClientIdleAgain)

\* The first session was torn down after its peer had closed the stream, and
\* a second session was started whose send thread has written its handshake.
C23_Witness ==
    /\ cl_conn = 2 /\ cl_pc = "run" /\ cwr_pc = "run"
    /\ c2s[2] = <<HandshakeMsg(c_version, c_token)>>
    /\ sock[1] = "srv_closed"

\* ------------------------------------------------------------------ C24
\* C24: the first frame a client session writes to its stream is
\* Handshake(version, token), every other frame is written after it, and a
\* message that was queued before the connect succeeded is never written.
C24_HandshakeFirst ==
    [][\A c \in ConnIds :
          (c = cl_conn' /\ Len(c2s'[c]) = Len(c2s[c]) + 1)
             => LET m == c2s'[c][Len(c2s'[c])] IN
                /\ c_first => m = HandshakeMsg(c_version, c_token) /\ ~c_first'
                /\ ~c_first => ~IsHandshake(m) /\ c_stale = 0]_vars

\* The UI has set the value twice, once before the connect and once after:
\* the first session has written its handshake and one Value frame, and
\* nothing is left on the channel.
C24_Witness ==
    /\ cl_conn = 1 /\ cl_pc = "run" /\ cwr_pc = "run"
    /\ cli_sets = 2 /\ cq = << >>
    /\ Len(c2s[1]) = 2
    /\ IsHandshake(c2s[1][1]) /\ IsValueFrame(c2s[1][2])

\* ------------------------------------------------------------------ C25
\* C25: after WriteMessage::parse of a message that is not a command, byte 0
\* of the header is negative as an i8 exactly when a payload is returned, its
\* absolute value is the kind tag, bytes 1..5 are the slot id little-endian,
\* byte 5 is the flag, and with a payload bytes 28..32 are its length as a
\* little-endian u32.
C25_HeaderDiscipline ==
    (cx_pc = "sent" /\ cx_msg.kind # "Command")
        => LET t == AsI8(cx_head[1]) IN
           /\ t < 0 <=> cx_data.some
           /\ (IF t < 0 THEN -t ELSE t) = TypeOf(cx_msg.kind)
           /\ Slice(cx_head, 1, 5) = LeBytes(cx_msg.id, 4)
           /\ LeValue(Slice(cx_head, 1, 5)) = cx_msg.id
           /\ cx_head[6] = (IF cx_msg.flag THEN 1 ELSE 0)
           /\ cx_data.some
                 => /\ Slice(cx_head, 28, 32) = LeBytes(Len(cx_data.bytes), 4)
                    /\ LeValue(Slice(cx_head, 28, 32)) = Len(cx_data.bytes)

\* A frame with a payload of 258 bytes was encoded, and then a flagged Value
\* frame without payload in the same buffer: the size field still holds 258
\* and byte 0 is positive.
C25_Witness ==
    /\ cx_pc = "sent" /\ cx_n = 2
    /\ cx_msg.kind = "Value" /\ cx_msg.flag /\ cx_msg.id = 16909060
    /\ ~cx_data.some
    /\ cx_head[1] = TYPE_VALUE
    /\ Slice(cx_head, 1, 5) = <<4, 3, 2, 1>>
    /\ Slice(cx_head, 28, 32) = <<2, 1, 0, 0>>

\* ------------------------------------------------------------------ C26
\* C26: a frame encoded by WriteMessage::parse and written by write_message
\* is read back by read_message and ReadMessage::parse as a message of the
\* same kind, with the same slot id and flag, the sub-header bytes of the
\* written header and the same payload, and nothing of it is left on the
\* stream; the nine kind tags are pairwise distinct and positive.
C26_FrameRoundTrip ==
    /\ \A k \in CodecKinds \cup {"Command"} :
          /\ TypeOf(k) \in 1..127
          /\ \A j \in CodecKinds \cup {"Command"} : TypeOf(j) = TypeOf(k) => j = k
    /\ (cx_pc = "idle" /\ cx_n > 0)
          => /\ cx_got.kind = cx_msg.kind
             /\ cx_got.id = cx_msg.id
             /\ cx_got.flag = cx_msg.flag
             /\ cx_got.sub = Slice(cx_head, IF cx_msg.kind = "Command" THEN 1 ELSE 6, HEAD_SIZE)
             /\ cx_got.data = cx_data
             /\ cx_wire = << >>

\* A flagged List frame without payload was read back after a frame with a
\* payload of 258 bytes had gone through the same header buffer.
C26_Witness ==
    /\ cx_pc = "idle" /\ cx_n = 2
    /\ cx_got.kind = "List" /\ cx_got.id = 16909060 /\ cx_got.flag
    /\ cx_got.data = None
    /\ Slice(cx_head, 28, 32) = <<2, 1, 0, 0>>


\* ------------------------------------------------------------------ C27
\* What the encoder made of the last message, on a fresh header.
DictSent == cx_msg.kind = "Dict" /\ cx_msg.body.op # "Raw"

DictFixed == cx_msg.body.K > 0 /\ cx_msg.body.V > 0

\* C27: for fixed-size key and value types, an All message of an empty map
\* is encoded with count 0 and no payload and a non-empty one with a payload
\* of count * (K::SIZE + V::SIZE) bytes; decoding gives All with the same
\* set of entries; and an All frame is accepted only with count 0 and no
\* payload or with a payload of exactly count * (K::SIZE + V::SIZE) bytes.
C27_AllRoundTrip ==
    /\ (cx_pc = "idle" /\ cx_n > 0 /\ DictSent /\ cx_msg.body.op = "All" /\ DictFixed)
          => LET b == cx_msg.body
                 n == Len(b.items)
             IN /\ LeValue(Slice(cx_head, 7, 15)) = n
                /\ cx_head[7] = DICT_ALL
                /\ n = 0 => cx_data = None
                /\ n > 0 => cx_data.some /\ Len(cx_data.bytes) = n * (b.K + b.V)
                /\ cx_got.upd.ok
                /\ cx_got.upd.op = "All"
                /\ cx_got.upd.map = {b.items[i] : i \in 1..n}
                /\ Cardinality(cx_got.upd.map) = n
    /\ (cx_pc = "idle" /\ cx_n > 0 /\ cx_msg.kind = "Dict" /\ cx_msg.body.op = "Raw")
          => LET b == cx_msg.body
                 c == LeValue(Slice(b.sub, 1, 9))
             IN cx_got.upd.ok
                   <=> \/ c = 0 /\ ~b.data.some
                       \/ c > 0 /\ b.data.some /\ Len(b.data.bytes) = c * (b.K + b.V)

\* A map of two entries of 8-byte keys and values was decoded from a
\* payload of 32 bytes, in the second frame of the header buffer.
C27_Witness ==
    /\ cx_pc = "idle" /\ cx_n = 2
    /\ DictSent /\ cx_msg.body.op = "All" /\ cx_msg.body.K = 8 /\ cx_msg.body.V = 8
    /\ Len(cx_data.bytes) = 32
    /\ cx_got.upd.ok /\ Cardinality(cx_got.upd.map) = 2


C28_DynamicRoundTrip ==
    (cx_pc = "idle" /\ cx_n > 0 /\ DictSent /\ ~DictFixed)
       => LET b == cx_msg.body IN
          /\ cx_got.upd.ok
          /\ cx_got.upd.op = b.op
          /\ b.op = "All" => cx_got.upd.map = {b.items[i] : i \in 1..Len(b.items)}
          /\ b.op = "Set" => cx_got.upd.key = b.key /\ cx_got.upd.value = b.value
          /\ b.op = "Remove" => cx_got.upd.key = b.key


\* ------------------------------------------------------------------ C30
\* The points do not have the axis mode of the series.
AxisMismatch(g, linear) == g.there /\ (g.x.some <=> linear)

\* C30: adding paired-axis points to a range-axis series, or range-axis
\* points to a paired-axis series, gives an error and leaves the series as
\* it was, both for an inbound AddPoints applied with add_points_from_data
\* and for the host's add_points on the server's graph slot.
C30_AxisModeCheck ==
    [][/\ (g_out # << >> /\ Head(g_out).cmd = "AddPoints"
             /\ AxisMismatch(g_cli, Head(g_out).gd.is_linear) /\ ClientGraphApply)
          => (g_rx' = "err" /\ g_cli' = g_cli)
       /\ \A linear \in BOOLEAN :
            (AxisMismatch(g_srv, linear) /\ \E conn \in BOOLEAN : HostGraphAddPy(linear, conn))
               => (g_ret' = "err" /\ g_srv' = g_srv)]_vars


\* ------------------------------------------------------------------ C31
\* The mirror holds the series the server had before it added AddPoints to
\* it, and the AddPoints message of that call is the only one under way.
MirrorBeforeAdd ==
    /\ Len(g_out) = 1 /\ Head(g_out).cmd = "AddPoints"
    /\ g_cli.there /\ g_srv.there
    /\ LET r == BufferToGraphAdd(g_cli, ~g_cli.x.some, AddPoints) IN
       r.ok /\ g_srv = r.g

\* C31: when the server, connected, has added points to a series the client
\* mirrors, the client's series after applying the AddPoints message is the
\* server's series: the previous points followed by the new ones.
C31_GraphAdd == [][(MirrorBeforeAdd /\ ClientGraphApply) => g_cli' = g_srv]_vars


\* ------------------------------------------------------------------ C32
\* C32: the k-th add call on a builder, counted from 0 and whatever its
\* shape, gets the id 10 + k; no id is below 10; no two slots share an id;
\* the dispatch maps hold the ids of the slots other than signals, each in
\* the map of its shape; and the server builder, given the same calls, gave
\* the same ids.
C32_DenseIds ==
    /\ \A k \in 1..Len(b_slots) : b_slots[k].id = 10 + (k - 1)
    /\ \A k \in 1..Len(b_slots) : b_slots[k].id >= 10
    /\ \A j, k \in 1..Len(b_slots) : b_slots[j].id = b_slots[k].id => j = k
    /\ b_cnt = 10 + Len(b_slots)
    /\ \A n \in MapNames :
          b_maps[n] = {b_slots[k].id : k \in {j \in 1..Len(b_slots) :
                                                 MapOfShape(b_slots[j].shape) = n}}
    /\ \A k \in 1..Len(sb_slots) : sb_slots[k] = b_slots[k]

\* A signal was added between two values on both builders: the values have
\* the ids 10 and 12, the signal took 11 and is in no dispatch map.
C32_Witness ==
    /\ Len(b_slots) = 3 /\ Len(sb_slots) = 3
    /\ b_slots[1].shape = "value" /\ b_slots[2].shape = "signal" /\ b_slots[3].shape = "value"
    /\ b_maps["values"] = {10, 12}
    /\ sb_slots[3].id = 12


\* ------------------------------------------------------------------ C33
\* C33: the client state becomes Connected only when the connect has
\* succeeded and the read and the send thread have been spawned, and
\* Disconnected only when both threads have ended; a failed connect leaves
\* the state NotConnected, spawns no thread, leaves the channel as it is and
\* the client thread waiting for the next connect signal.
C33_StateReports ==
    [][/\ (ui_state' = "Connected" /\ ui_state # "Connected")
             => /\ cl_conn # 0 /\ sock[cl_conn] # "free"
                /\ crd_pc # "off" /\ cwr_pc # "off"
       /\ (ui_state' = "Disconnected" /\ ui_state # "Disconnected")
             => /\ crd_pc = "done" /\ cwr_pc = "done"
       /\ ClientConnectFail
             => /\ ui_state' = "NotConnected"
                /\ crd_pc' = "off" /\ cwr_pc' = "off"
                /\ cq' = cq
                /\ cl_pc' = "wait"]_vars

\* After a session that ended with an Error left on the channel, a connect
\* has failed: the state is NotConnected, no thread exists, the Error is
\* still on the channel and the client thread waits.
C33_Witness ==
    /\ cl_pc = "wait" /\ ui_state = "NotConnected"
    /\ cl_conn = 1
    /\ crd_pc = "off" /\ cwr_pc = "off"
    /\ cq # << >> /\ Head(cq) = ErrorMsg("Error parsing message")


\* Server-originated VALUE frames of slot id in a channel or on a stream.
ValueFramesFor(q, id) ==
    Len(SelectSeq(q, LAMBDA m : m.kind = "Value" /\ m.id = id))

\* An established session: the flag is set and both transfer threads run on
\* an open stream.  Every frame in the channel was enqueued after the drain.
Established ==
    /\ connected
    /\ holder = "Transfer"
    /\ rd_pc = "run" /\ wr_pc = "run"
    /\ sock[rd_conn] = "open"

\* Frames of slot id the client has not read yet: their Ack cannot have been
\* processed.
InFlight(id) == ValueFramesFor(queue, id) + ValueFramesFor(s2c[rd_conn], id)

\* C34: In an established session the pending-write counter of every value
\* slot is never smaller than the number of server-originated VALUE frames
\* for that slot that were enqueued for this session and whose Ack has not
\* been processed, also after a sync() that ran while such a frame was
\* outstanding.
C34_CounterCoversInFlight ==
    Established => \A id \in ValueIds : s_cnt[id] >= InFlight(id)


\* The channel already holds the message of a set of slot id that carries
\* the slot's current mirror.
SetMessageQueued(id) ==
    \E i \in DOMAIN queue :
        /\ queue[i].kind = "Value" /\ queue[i].id = id
        /\ queue[i].val = s_val[id]

\* C35: Sync snapshot ordering.  When sync() runs concurrently with a local
\* set on the same slot, the sync message is never enqueued after the message
\* of a set that was applied to the mirror after the snapshot was taken: the
\* message sync() enqueues carries the slot's current mirror, so the last
\* message enqueued for the slot does.
C35_SyncOrder ==
    [][\A id \in ValueIds :
          (/\ SrvSyncSend
           /\ Head(sync_snap).id = id
           /\ SetMessageQueued(id))
          => Head(sync_snap).val = s_val[id]]_vars


\* The sync sweep of the session being set up has taken the snapshot of
\* slot id.
SnapshotTaken(id) == srv_pc = "hs_sync" /\ id \notin sync_todo

\* C36: A local set that races with session establishment is never lost.  A
\* set whose mirror write happens after the sync sweep took the slot's
\* snapshot, while the new session's connected flag is set, has its value
\* enqueued for the new session.
C36_RacingSetEnqueued ==
    [][\A h \in Hosts :
          (/\ HostSetStore(h)
           /\ connected
           /\ SnapshotTaken(host_arg[h].id))
          => /\ Len(queue') = Len(queue) + 1
             /\ queue'[Len(queue')].kind = "Value"
             /\ queue'[Len(queue')].id = host_arg[h].id
             /\ queue'[Len(queue')].val = host_arg[h].val]_vars


\* The server thread refuses the stream it accepted: the first-frame checks
\* fail and the loop starts over.
HandshakeFails ==
    /\ \E c \in ConnIds : SrvHandshake(c)
    /\ srv_pc' # "hs_prev"

\* C37: While a session is established, a newly accepted socket whose
\* handshake attempt fails for any reason does not change the connected flag
\* and does not make the existing session's reader or writer exit.
C37_FailedHandshakeHarmless ==
    [][(Established /\ HandshakeFails) =>
          /\ connected' = connected
          /\ rd_pc' = rd_pc
          /\ wr_pc' = wr_pc]_vars


\* A valid handshake has arrived on a new stream while the transfer handle of
\* a previous session exists.
ReplacementStarted == srv_pc = "hs_prev" /\ holder = "Transfer"

\* The session on the stream the server thread accepted last is set up.
NewSessionUp ==
    /\ holder = "Transfer"
    /\ rd_conn = srv_conn
    /\ connected

AbsOf(b) == IF b < 0 THEN -b ELSE b

\* The nine kind tags.
KindTags == {TypeOf(k) : k \in CodecKinds \cup {"Command"}}

\* C39: For each of the 256 values of header byte 0, read as a signed 8-bit
\* integer b, read_message computes without arithmetic overflow
\* has_payload = (b < 0) and a kind tag equal to |b| in 0..=127,
\* ReadMessage::parse returns an error for every tag that is not one of the
\* nine kind tags, and no byte value makes the reader abort.
C39_HeaderByte ==
    [][\A bld \in Builds :
          (CodecRead(bld) /\ Len(cx_wire) >= HEAD_SIZE) =>
             LET b == AsI8(cx_wire[1])
                 r == read_message(cx_wire)
             IN /\ cx_pc' # "aborted"
                /\ ~r.overflow
                /\ r.ok
                /\ r.data.some <=> b < 0
                /\ r.type = AbsOf(b)
                /\ r.type \in 0..127
                /\ r.type \notin KindTags => cx_got'.kind = "error"]_vars


\* The last n elements of a vector.
LastN(v, n) == SubSeq(v, Len(v) - n + 1, Len(v))

\* C40: Graph::to_graph_data(Some(p)) with p <= len(y) returns graph data
\* with points = p whose payload is the last p x-values followed by the last
\* p y-values (only the y-values for a series without x);
\* to_graph_data(None) returns the whole series; p > len(y) aborts; and
\* from_graph_data(to_graph_data(None)) is the original series.
C40_ToGraphData ==
    [][(\E arg \in PackArgs, size \in ElemSizes, ub \in PackOutcomes :
            GraphPack(arg, size, ub)) =>
          LET a == g_pack'.arg
              r == g_pack'.res
          IN IF a.some /\ a.p > Len(g_srv.y)
             THEN r.kind = "panic"
             ELSE /\ r.kind = "ok"
                  /\ IF a.some
                     THEN /\ r.gd.points = a.p
                          /\ r.gd.data =
                               (IF g_srv.x.some THEN LastN(g_srv.x.v, a.p) ELSE << >>)
                                   \o LastN(g_srv.y, a.p)
                     ELSE /\ r.gd.points = Len(g_srv.y)
                          /\ r.gd.data =
                               (IF g_srv.x.some THEN g_srv.x.v ELSE << >>) \o g_srv.y
                          /\ FromGraphData(r.gd) = g_srv]_vars

=============================================================================
